---- MODULE Spec2Model ----
(***************************************************************************)
(* FileSimilarityFinder (src/file_similarity_finder.py): the directory     *)
(* scan (enumeration, content hashing in the sequential and in the pool    *)
(* strategy, index construction), cooperative cancellation, and the four   *)
(* classifier queries over the index.                                      *)
(*                                                                         *)
(* A path is a record [dir, name]: dir is the sequence of directory        *)
(* components below the scanned root, name the dot-separated segments of   *)
(* the file name, each the sequence of its characters.  A content digest   *)
(* is <<"xxh64", c>> for content c, the error string of a failed read is   *)
(* <<"ERROR", id>> with id identifying the path named in the message.      *)
(*                                                                         *)
(* The name matcher (find_similar_names, find_similar_names_parallel) and  *)
(* the five scoring methods are modelled after the classifier; the scoring *)
(* follows difflib.SequenceMatcher and the fuzz functions built on it.     *)
(***************************************************************************)
EXTENDS Integers, Sequences, FiniteSets, TLC

(* ------------------------------ bounds -------------------------------- *)

\* Largest number of regular files under the scanned root.
MaxFiles == 3

\* Number of files from which hashing uses the process pool.  The source
\* compares against the literal 100 (total_files < 100); the model scales
\* the threshold down so that both strategies run within MaxFiles.
SequentialLimit == 3

\* self.max_workers, the constructor's argument.
MaxWorkers == 2

\* scan_directory calls made on one finder object.
MaxScans == 2

\* Distinct file contents.
MaxContents == 2

\* Files whose read fails.
MaxUnreadable == 1

\* Largest number of files in a catalog the matcher is called on.
MaxNames == 4

\* A catalog of more files than this is matched in the pool (scaled: the
\* program's limit is 100).
ParallelOver == 3

\* Pairs per chunk (scaled: the program's default is 1000).
ChunkSize == 2

\* The sequential matcher updates the progress every so many comparisons
\* (scaled: the program's period is 100).
ProgressEvery == 2

\* Matcher calls in a behaviour.
MaxCalls == 2

\* Chunks whose worker raises, per call.
MaxFailures == 1

\* The longest text of letters that is scored as a name.
MaxNameLen == 3

\* Regular files in a tree examined for the grouping by name.
MaxGroupFiles == 5

\* Entries of the catalog of a finder on which calls are made while the
\* flag is set.
MaxFlagFiles == 3

(* ------------------------------ helpers ------------------------------- *)

Range(s) == {s[k] : k \in 1..Len(s)}

NoDuplicates(s) == \A a, b \in 1..Len(s) : a # b => s[a] # s[b]

\* An insertion-ordered dict of lists: a sequence of [key, paths] buckets.
HasKey(d, k) == \E n \in 1..Len(d) : d[n].key = k

KeyIndex(d, k) == CHOOSE n \in 1..Len(d) : d[n].key = k

\* d[k].append(v), creating d[k] = [] first when k is a new key.
DictAppend(d, k, v) ==
    IF HasKey(d, k)
    THEN [d EXCEPT ![KeyIndex(d, k)].paths = Append(@, v)]
    ELSE Append(d, [key |-> k, paths |-> <<v>>])

\* [paths for key, paths in d.items()]
Groups(d) == [n \in 1..Len(d) |-> d[n].paths]

(* ----------------------------- file system ---------------------------- *)

\* A str is the sequence of its characters.
Str(chars) == chars

report == Str(<<"r", "e", "p", "o", "r", "t">>)

notes == Str(<<"n", "o", "t", "e", "s">>)

link == Str(<<"l", "i", "n", "k">>)

txt == Str(<<"t", "x", "t">>)

docx == Str(<<"d", "o", "c", "x">>)

sub == Str(<<"s", "u", "b">>)

Path(d, n) == [dir |-> d, name |-> n]

SubDir == Path(<<>>, <<sub>>)

\* An entry of the root that can be a symbolic link to a regular file kept
\* outside the root.
Link == Path(<<>>, <<link, txt>>)

\* Every entry the directory listing can yield, in listing order.
Tree ==
    << Path(<<>>, <<report, txt>>),
       Path(<<>>, <<report, docx>>),
       Path(<<>>, <<notes, txt>>),
       SubDir,
       Path(<<sub>>, <<report, txt>>),
       Link,
       Path(<<>>, <<notes, docx>>),
       Path(<<sub>>, <<notes, txt>>) >>

\* The regular files of the larger trees, on which only the grouping by
\* name is examined.
MorePaths == {Path(<<>>, <<notes, docx>>), Path(<<sub>>, <<notes, txt>>)}

FilePaths == Range(Tree) \ ({SubDir, Link} \cup MorePaths)

\* The regular files a tree examined for the grouping by name can hold.
GroupPaths == FilePaths \cup MorePaths

PathId(p) == CHOOSE n \in 1..Len(Tree) : Tree[n] = p

\* os.path.basename
basename(p) == p.name

\* os.path.splitext: the extension starts at the last dot of the name;
\* leading dots do not start an extension.
RECURSIVE LeadingDots(_)
LeadingDots(n) ==
    IF Len(n) > 1 /\ n[1] = <<>> THEN 1 + LeadingDots(Tail(n)) ELSE 0

splitext(n) ==
    IF Len(n) - LeadingDots(n) > 1
    THEN << SubSeq(n, 1, Len(n) - 1), <<n[Len(n)]>> >>
    ELSE << n, <<>> >>

VARIABLES
    fs_files,        \* the regular files under the root
    fs_links,        \* the symbolic links to regular files under the root
    fs_content,      \* the bytes open() reads from each of them
    fs_unreadable    \* those whose open() fails

\* The directory is not modified while it is scanned and queried: the four
\* are chosen by Init and never change.

fsVars == <<fs_files, fs_links, fs_content, fs_unreadable>>

\* The entries open() reads as a file: a symbolic link is followed.
Opens == fs_files \cup fs_links

(* ------------------------------- finder ------------------------------- *)

VARIABLES
    file_hashes,        \* self.file_hashes: hash -> list of paths
    file_names,         \* self.file_names: filename -> list of paths
    all_files,          \* self.all_files
    progress_callback,  \* whether self.progress_callback is set
    cancel_event,       \* self.cancel_event
    current_executor    \* self.current_executor

finderVars ==
    <<file_hashes, file_names, all_files, progress_callback, cancel_event,
      current_executor>>

\* The scanning thread: its position in scan_directory and the locals.
VARIABLES
    pc,            \* "idle" or the step of scan_directory to run next
    args,          \* the arguments of the running call
    files,         \* scan_directory's local files
    hash_results,  \* calculate_hashes_parallel's local file_hashes
    order,         \* the paths in the order their results were collected
    idx,           \* the sequential loop's i, the pool loop's completed
    futures,       \* future_to_file: path -> state and result
    cur,           \* the future as_completed yielded
    outcome,       \* how the last call ended
    groups         \* the query results the caller holds

scanVars ==
    <<pc, args, files, hash_results, order, idx, futures, cur, outcome, groups>>

\* History of the running (or last) call.
VARIABLES
    completed,   \* scan_directory calls on this finder that returned normally
    catalog,     \* all_files as the last of them left it
    entry,       \* the finder's state when the call started
    checks,      \* the cancel checks made: where, and what they read
    ticks,       \* the progress callbacks made
    hashed_ok,   \* paths whose digest a scan of this finder computed
    mid_cancel   \* where the flag was set during hashing, if it was

histVars ==
    <<completed, catalog, entry, checks, ticks, hashed_ok, mid_cancel>>

\* The thread that runs the name matcher: its position in find_similar_names
\* or find_similar_names_parallel and the locals.
VARIABLES
    sim_pc,           \* "idle" or the step of the matcher to run next
    sim_args,         \* the arguments of the running (or last) call, and
                      \* the version that runs it
    count,            \* comparison_count, or processed_chunks in the pool
    processed_pairs,  \* the sequential path's processed_pairs
    similar_pairs,    \* the pairs retained so far
    future_to_chunk,  \* chunk number -> state and result of its future
    cur_chunk,        \* the future as_completed yielded
    shutdown,         \* whether the pool was told to shut down
    sim_outcome,      \* how the last matcher call ended
    sim_result        \* the list it returned

simVars ==
    <<sim_pc, sim_args, count, processed_pairs, similar_pairs, future_to_chunk,
      cur_chunk, shutdown, sim_outcome, sim_result>>

\* History of the matcher calls.
VARIABLES
    sim_calls,    \* matcher calls started
    scored,       \* the pairs scored by the running (or last) call, in order
    sim_cancel,   \* where the flag was set during a pool call, if it was
    last_call,    \* threshold, method, version and result of the last call
                  \* but one
    sim_ticks     \* the progress updates of the running (or last) call

simHistVars == <<sim_calls, scored, sim_cancel, last_call, sim_ticks>>

\* A single call of calculate_name_similarity.
VARIABLES
    score_args,   \* name1, name2 and method
    score         \* the similarity returned

scoreVars == <<score_args, score>>

\* The thread that calls cancel_operation while a call runs.
VARIABLES
    cancel_pc,      \* "idle", or "shutdown" after its test found an executor
    cancel_outcome  \* how its cancel_operation ended

cancelVars == <<cancel_pc, cancel_outcome>>

matchVars == <<simVars, simHistVars, scoreVars, cancelVars>>

vars == <<fsVars, finderVars, scanVars, histVars, matchVars>>

NoHash == <<"None", 0>>

NoPath == Path(<<>>, <<>>)

NoArgs == [exists |-> TRUE, recursive |-> TRUE]

NoOutcome == [exc |-> "none", line |-> 0]

NoGroups ==
    [queried |-> FALSE, all_duplicates |-> <<>>, identical_content |-> <<>>,
     duplicates_same_name |-> <<>>, same_names |-> <<>>]

NoCancel == [at |-> "none", left |-> 0]

\* The finder as a call finds it, and whether the call's root exists.
Snapshot(exists) ==
    [all_files |-> all_files, file_hashes |-> file_hashes,
     file_names |-> file_names, catalog |-> catalog, exists |-> exists]

NoSimArgs ==
    [threshold |-> [num |-> 0, den |-> 1], method |-> "none", via |-> "none"]

\* No score yet: not a number.
NoScore == [num |-> 0, den |-> 0]

NoScoreArgs == [name1 |-> <<>>, name2 |-> <<>>, method |-> "none"]

NoCall ==
    [threshold |-> [num |-> 0, den |-> 1], method |-> "none", via |-> "none",
     pairs |-> <<>>]

\* No matcher call was made.
MatcherIdle ==
    /\ sim_pc = "idle"
    /\ sim_args = NoSimArgs
    /\ count = 0
    /\ processed_pairs = {}
    /\ similar_pairs = <<>>
    /\ future_to_chunk = <<>>
    /\ cur_chunk = 0
    /\ shutdown = FALSE
    /\ sim_outcome = NoOutcome
    /\ sim_result = <<>>
    /\ sim_calls = 0
    /\ scored = <<>>
    /\ sim_cancel = NoCancel
    /\ last_call = NoCall
    /\ sim_ticks = <<>>

NotScoring ==
    /\ score_args = NoScoreArgs
    /\ score = NoScore

NotCancelling ==
    /\ cancel_pc = "idle"
    /\ cancel_outcome = "none"

NoSnapshot ==
    [all_files |-> <<>>, file_hashes |-> <<>>, file_names |-> <<>>,
     catalog |-> <<>>, exists |-> TRUE]

\* Contents are opaque: only their equality is observed, so one labelling
\* stands for each partition of the files into equal contents.
Canonical(f) ==
    \A p \in DOMAIN f :
        \/ f[p] = 1
        \/ \E q \in DOMAIN f : PathId(q) < PathId(p) /\ f[q] = f[p] - 1

\* FileSimilarityFinder.__init__
NewFinderState ==
    /\ file_hashes = <<>>
    /\ file_names = <<>>
    /\ all_files = <<>>
    /\ progress_callback = FALSE
    /\ cancel_event = FALSE
    /\ current_executor = "None"

Init ==
    /\ fs_files \in {S \in SUBSET FilePaths : Cardinality(S) <= MaxFiles}
    /\ fs_links \in {S \in SUBSET {Link} :
                        Cardinality(fs_files) + Cardinality(S) <= MaxFiles}
    /\ fs_content \in {f \in [Opens -> 1..MaxContents] : Canonical(f)}
    /\ fs_unreadable \in {S \in SUBSET Opens : Cardinality(S) <= MaxUnreadable}
    /\ NewFinderState
    /\ pc = "idle"
    /\ args = NoArgs
    /\ files = <<>>
    /\ hash_results = <<>>
    /\ order = <<>>
    /\ idx = 0
    /\ futures = <<>>
    /\ cur = NoPath
    /\ outcome = NoOutcome
    /\ groups = NoGroups
    /\ completed = 0
    /\ catalog = <<>>
    /\ entry = NoSnapshot
    /\ checks = <<>>
    /\ ticks = <<>>
    /\ hashed_ok = {}
    /\ mid_cancel = NoCancel
    /\ MatcherIdle
    /\ NotCancelling
    /\ NotScoring

(* ------------------------------ hashing ------------------------------- *)

Digest(c) == <<"xxh64", c>>

\* f"ERROR: {str(e)}": the message of a failed open() names the path.
ErrorString(p) == <<"ERROR", PathId(p)>>

\* file_hash.startswith("ERROR:")
IsError(h) == h[1] = "ERROR"

\* FileSimilarityFinder.calculate_file_hash: the digest of the file's
\* bytes, or the error string when the read raises.
calculate_file_hash(p) ==
    IF p \in fs_unreadable THEN ErrorString(p) ELSE Digest(fs_content[p])

\* calculate_file_hash_worker, the pool's unit of work: the same read.
calculate_file_hash_worker(p) ==
    IF p \in fs_unreadable THEN ErrorString(p) ELSE Digest(fs_content[p])

\* A bug of the error test: the error string is stored like a digest.
StoreHash_KeepErrors(results, p, h) == results @@ (p :> h)

\* if not file_hash.startswith("ERROR:"): file_hashes[file_path] = file_hash
StoreHash(results, p, h) ==
    IF ~IsError(h) THEN results @@ (p :> h) ELSE results

\* The paths hashed without an error so far, with h the hash of p.
HashedOk(p, h) == IF ~IsError(h) THEN hashed_ok \cup {p} ELSE hashed_ok

(* ------------------------ progress and cancelling --------------------- *)

\* self.is_cancelled(), logged: where it was read and what it returned.
Checked(log, at) == Append(log, [at |-> at, set |-> cancel_event])

\* A bug of the progress report: nothing is reported for the last file.
Ticked_LastUnreported(log, done, total) ==
    IF progress_callback /\ (done < total \/ total = 0)
    THEN Append(log, [done |-> done, total |-> total, cancelled |-> cancel_event])
    ELSE log

\* self.progress_callback(message, percentage) when a callback is set;
\* percentage is done / total * 100, or None (0 of 0).
Ticked(log, done, total) ==
    IF progress_callback
    THEN Append(log, [done |-> done, total |-> total, cancelled |-> cancel_event])
    ELSE log

ResetLocals ==
    /\ args' = NoArgs
    /\ files' = <<>>
    /\ hash_results' = <<>>
    /\ order' = <<>>
    /\ idx' = 0
    /\ futures' = <<>>
    /\ cur' = NoPath

\* raise exc at the given line of the source: the call ends.
Raise(exc, line) ==
    /\ pc' = "idle"
    /\ outcome' = [exc |-> exc, line |-> line]
    /\ ResetLocals

\* The call returns normally.
Return ==
    /\ pc' = "idle"
    /\ outcome' = [exc |-> "returned", line |-> 0]
    /\ completed' = completed + 1
    /\ catalog' = all_files
    /\ ResetLocals

\* A bug of _update_progress: the callback is made, the flag is not read.
LoopProgressRaises_NoCheck == FALSE

\* Lines 208-211 and 236-239 with 160-162: inside the hashing loops
\* _update_progress is called only when a callback is set; it raises when
\* the flag is set.
LoopProgressRaises == progress_callback /\ cancel_event

Hashing == pc \in {"seq_check", "seq_hash", "pool_wait", "pool_result"}

\* Files of the running hashing call whose result is not collected yet.
Uncollected == IF Hashing THEN Len(all_files) - idx ELSE 0

\* itertools.combinations(range(n), 2) from (i, j) on: the index pairs
\* i < j in lexicographic order.
RECURSIVE combinations_from(_, _, _)
combinations_from(i, j, n) ==
    IF i >= n THEN <<>>
    ELSE IF j > n THEN combinations_from(i + 1, i + 2, n)
    ELSE <<<<i, j>>>> \o combinations_from(i, j + 1, n)

\* list(itertools.combinations(self.all_files, 2)), and the same pairs as
\* the nested loops over enumerate(self.all_files) visit them.
file_pairs ==
    LET ij == combinations_from(1, 2, Len(all_files))
    IN  [k \in 1..Len(ij) |-> <<all_files[ij[k][1]], all_files[ij[k][2]]>>]

total_pairs == Len(file_pairs)

\* chunks = [file_pairs[i:i + chunk_size] for i in range(0, len, chunk_size)]
NumChunks == (total_pairs + ChunkSize - 1) \div ChunkSize

PoolCall == sim_pc \in {"generated", "pairs", "open", "submit", "wait", "result"}

\* Chunks of the running pool call whose result is not collected yet.
UncollectedChunks == IF PoolCall THEN NumChunks - count ELSE 0

(* --------------------------- the controller --------------------------- *)

\* FileSimilarityFinder(): a new finder object replaces the old one.
NewFinder ==
    /\ pc = "idle"
    /\ sim_pc = "idle"
    /\ file_hashes' = <<>>
    /\ file_names' = <<>>
    /\ all_files' = <<>>
    /\ progress_callback' = FALSE
    /\ cancel_event' = FALSE
    /\ current_executor' = "None"
    /\ outcome' = NoOutcome
    /\ groups' = NoGroups
    /\ completed' = 0
    /\ catalog' = <<>>
    /\ entry' = NoSnapshot
    /\ checks' = <<>>
    /\ ticks' = <<>>
    /\ hashed_ok' = {}
    /\ mid_cancel' = NoCancel
    /\ UNCHANGED <<fsVars, matchVars, pc, args, files, hash_results, order, idx, futures, cur>>

\* set_progress_callback: the callers configure a finder right after they
\* construct it (gui_app.py start_scan), before its first operation.
set_progress_callback(callback) ==
    /\ pc = "idle"
    /\ sim_pc = "idle"
    /\ outcome = NoOutcome
    /\ progress_callback' = callback
    /\ UNCHANGED <<fsVars, matchVars, file_hashes, file_names, all_files, cancel_event,
                   current_executor, scanVars, histVars>>

\* cancel_operation: set the flag; shut the tracked executor down, if any.
cancel_operation ==
    /\ cancel_event' = TRUE
    /\ shutdown' = IF current_executor # "None" THEN TRUE ELSE shutdown
    /\ mid_cancel' = IF Uncollected > 0 /\ ~cancel_event
                     THEN [at |-> pc, left |-> Uncollected]
                     ELSE mid_cancel
    /\ sim_cancel' = IF UncollectedChunks > 0 /\ ~cancel_event
                     THEN [at |-> sim_pc, left |-> UncollectedChunks]
                     ELSE sim_cancel
    /\ UNCHANGED <<sim_pc, sim_args, count, processed_pairs, similar_pairs,
                   future_to_chunk, cur_chunk, sim_outcome, sim_result,
                   sim_calls, scored, last_call, sim_ticks, scoreVars, cancelVars>>
    /\ UNCHANGED <<fsVars, file_hashes, file_names, all_files, progress_callback,
                   current_executor, scanVars, completed, catalog, entry, checks,
                   ticks, hashed_ok>>

\* reset_cancellation, "for new operations": its callers (gui_app.py
\* start_scan and export_thread) call it before an operation starts.
reset_cancellation ==
    /\ pc = "idle"
    /\ sim_pc = "idle"
    /\ cancel_event' = FALSE
    /\ current_executor' = "None"
    /\ mid_cancel' = NoCancel
    /\ UNCHANGED <<fsVars, matchVars, file_hashes, file_names, all_files, progress_callback,
                   scanVars, completed, catalog, entry, checks, ticks, hashed_ok>>

(* --------------------------- scan_directory --------------------------- *)

\* list(path.rglob('*')) or list(path.glob('*')): every entry below the
\* root, or its direct children only; directories are entries too.
listing(recursive) ==
    SelectSeq(Tree, LAMBDA p : /\ p \in Opens \/ p = SubDir
                               /\ recursive \/ p.dir = <<>>)

\* Path.is_file: true of a regular file and, the link being followed, of a
\* symbolic link to a regular file.
is_file(p) == p \in fs_files \/ p \in fs_links

\* A bug of the index construction: a path without a result is indexed
\* under its error string.
RECURSIVE BuildHashes_EveryPath(_, _, _)
BuildHashes_EveryPath(fh, paths, results) ==
    IF paths = <<>> THEN fh
    ELSE LET p == Head(paths)
         IN  BuildHashes_EveryPath(
                 DictAppend(fh, IF p \in DOMAIN results THEN results[p]
                                ELSE ErrorString(p), p),
                 Tail(paths), results)

\* self.file_hashes[file_hash].append(file_path) for the paths that
\* have a result, in the order of all_files.
RECURSIVE BuildHashes(_, _, _)
BuildHashes(fh, paths, results) ==
    IF paths = <<>> THEN fh
    ELSE LET p == Head(paths)
         IN  BuildHashes(IF p \in DOMAIN results
                         THEN DictAppend(fh, results[p], p)
                         ELSE fh,
                         Tail(paths), results)

\* A bug of the index construction: the paths are taken in the order
\* their results were collected.
RECURSIVE BuildNames_AsCollected(_, _)
BuildNames_AsCollected(fn, paths) ==
    IF paths = <<>> THEN fn
    ELSE LET p == IF Len(order) >= Len(paths)
                  THEN order[Len(order) - Len(paths) + 1]
                  ELSE Head(paths)
         IN  BuildNames_AsCollected(DictAppend(fn, basename(p), p), Tail(paths))

\* self.file_names[filename].append(file_path) for every path.
RECURSIVE BuildNames(_, _)
BuildNames(fn, paths) ==
    IF paths = <<>> THEN fn
    ELSE BuildNames(DictAppend(fn, basename(Head(paths)), Head(paths)),
                    Tail(paths))

\* A bug of the call's start: the root is not tested.
EntryOutcome_RootUntested(exists) ==
    IF cancel_event THEN [exc |-> "InterruptedError", line |-> 162]
    ELSE NoOutcome

\* A bug of the entry: the first progress update does not read the flag.
EntryOutcome_FlagUnread(exists) ==
    IF ~exists THEN [exc |-> "ValueError", line |-> 249]
    ELSE NoOutcome

\* Lines 245-249: how the call ends before it lists the directory, if it
\* does: _update_progress raises when the flag is set, then a missing root
\* raises ValueError.
EntryOutcome(exists) ==
    IF cancel_event THEN [exc |-> "InterruptedError", line |-> 162]
    ELSE IF ~exists THEN [exc |-> "ValueError", line |-> 249]
    ELSE NoOutcome

\* Lines 243-255: the call, its first progress update (which checks the
\* flag), the test that the root exists, and the directory listing.
scan_directory(exists, recursive) ==
    /\ pc = "idle"
    /\ completed < MaxScans
    /\ entry' = Snapshot(exists)
    /\ groups' = NoGroups
    /\ mid_cancel' = NoCancel
    /\ ticks' = Ticked(<<>>, 0, 0)
    /\ checks' = Checked(<<>>, "enter")
    /\ IF EntryOutcome(exists) # NoOutcome
       THEN Raise(EntryOutcome(exists).exc, EntryOutcome(exists).line)
       ELSE /\ pc' = "listed"
            /\ args' = [exists |-> exists, recursive |-> recursive]
            /\ files' = listing(recursive)
            /\ outcome' = NoOutcome
            /\ UNCHANGED <<hash_results, order, idx, futures, cur>>
    /\ UNCHANGED <<fsVars, matchVars, finderVars, completed, catalog, hashed_ok>>

\* A bug of the step after the listing: the flag is not read.
ScanCatalog_Unchecked ==
    /\ pc = "listed"
    /\ all_files' = SelectSeq(files, is_file)
    /\ pc' = "found"
    /\ UNCHANGED <<fsVars, matchVars, file_hashes, file_names, progress_callback,
                   cancel_event, current_executor, args, files, hash_results, order,
                   idx, futures, cur, outcome, groups, histVars>>

\* Lines 257-262: the check after the listing, then the catalog.
ScanCatalog ==
    /\ pc = "listed"
    /\ checks' = Checked(checks, "listed")
    /\ IF cancel_event
       THEN /\ Raise("InterruptedError", 259)
            /\ UNCHANGED all_files
       ELSE /\ all_files' = SelectSeq(files, is_file)
            /\ pc' = "found"
            /\ UNCHANGED <<args, files, hash_results, order, idx, futures, cur, outcome>>
    /\ UNCHANGED <<fsVars, matchVars, file_hashes, file_names, progress_callback,
                   cancel_event, current_executor, groups, completed, catalog,
                   entry, ticks, hashed_ok, mid_cancel>>

\* Lines 264-269 and 194-219: the second progress update; with no file the
\* call returns, otherwise hashing starts in the strategy the file count
\* selects, the pool strategy submitting one unit per path.
ScanFound ==
    /\ pc = "found"
    /\ ticks' = Ticked(ticks, 0, 0)
    /\ checks' = Checked(checks, "found")
    /\ IF cancel_event
       THEN Raise("InterruptedError", 162) /\ UNCHANGED <<completed, catalog>>
       ELSE IF Len(all_files) = 0
       THEN Return
       ELSE /\ hash_results' = <<>>
            /\ order' = <<>>
            /\ idx' = 0
            /\ IF Len(all_files) < SequentialLimit
               THEN pc' = "seq_check" /\ UNCHANGED futures
               ELSE /\ pc' = "pool_wait"
                    /\ futures' = [p \in Range(all_files) |->
                                      [state |-> "pending", result |-> NoHash]]
            /\ UNCHANGED <<args, files, cur, outcome, completed, catalog>>
    /\ UNCHANGED <<fsVars, matchVars, finderVars, groups, entry, hashed_ok, mid_cancel>>

\* Lines 198-200: the sequential loop's check before each file.
SeqCheck ==
    /\ pc = "seq_check"
    /\ checks' = Checked(checks, "seq_check")
    /\ IF cancel_event
       THEN Raise("InterruptedError", 200)
       ELSE /\ pc' = "seq_hash"
            /\ UNCHANGED <<args, files, hash_results, order, idx, futures, cur, outcome>>
    /\ UNCHANGED <<fsVars, matchVars, finderVars, groups, completed, catalog, entry, ticks,
                   hashed_ok, mid_cancel>>

\* Lines 202-212: hash the file, keep the digest or skip the error, report
\* progress when a callback is set (which checks the flag); after the last
\* file the mapping is returned to scan_directory.
SeqHash ==
    /\ pc = "seq_hash"
    /\ LET p == all_files[idx + 1]
           h == calculate_file_hash(p)
           n == Len(all_files)
       IN  /\ hashed_ok' = HashedOk(p, h)
           /\ ticks' = Ticked(ticks, idx + 1, n)
           /\ checks' = IF progress_callback THEN Checked(checks, "progress")
                        ELSE checks
           /\ IF LoopProgressRaises
              THEN Raise("InterruptedError", 162)
              ELSE /\ hash_results' = StoreHash(hash_results, p, h)
                   /\ order' = Append(order, p)
                   /\ idx' = idx + 1
                   /\ pc' = IF idx + 1 = n THEN "build" ELSE "seq_check"
                   /\ UNCHANGED <<args, files, futures, cur, outcome>>
    /\ UNCHANGED <<fsVars, matchVars, finderVars, groups, completed, catalog, entry, mid_cancel>>

\* Lines 271-285: the check before the mappings are built, then the
\* mappings; the call returns.
BuildMappings ==
    /\ pc = "build"
    /\ checks' = Checked(checks, "build")
    /\ IF cancel_event
       THEN /\ Raise("InterruptedError", 273)
            /\ UNCHANGED <<file_hashes, file_names, completed, catalog>>
       ELSE /\ file_hashes' = BuildHashes(file_hashes, all_files, hash_results)
            /\ file_names' = BuildNames(file_names, all_files)
            /\ Return
    /\ UNCHANGED <<fsVars, matchVars, all_files, progress_callback, cancel_event,
                   current_executor, groups, entry, ticks, hashed_ok,
                   mid_cancel>>

(* ----------------------- the pool strategy ---------------------------- *)

Running == {p \in DOMAIN futures : futures[p].state = "running"}

\* A free pool process takes the next submitted unit off the work queue.
WorkerStart(p) ==
    /\ pc \in {"pool_wait", "pool_result", "pool_exit"}
    /\ p \in DOMAIN futures
    /\ futures[p].state = "pending"
    /\ \A q \in DOMAIN futures :
          futures[q].state = "pending" => PathId(p) <= PathId(q)
    /\ Cardinality(Running) < MaxWorkers
    /\ futures' = [futures EXCEPT ![p].state = "running"]
    /\ UNCHANGED <<fsVars, matchVars, finderVars, pc, args, files, hash_results, order, idx, cur,
                   outcome, groups, histVars>>

\* The process finishes the unit: the future holds (file_path, file_hash).
WorkerFinish(p) ==
    /\ pc \in {"pool_wait", "pool_result", "pool_exit"}
    /\ p \in DOMAIN futures
    /\ futures[p].state = "running"
    /\ LET h == calculate_file_hash_worker(p)
       IN  /\ futures' = [futures EXCEPT ![p] = [state |-> "done", result |-> h]]
           /\ hashed_ok' = HashedOk(p, h)
    /\ UNCHANGED <<fsVars, matchVars, finderVars, pc, args, files, hash_results, order, idx, cur,
                   outcome, groups, completed, catalog, entry, checks, ticks,
                   mid_cancel>>

\* Lines 222-227: as_completed yields a finished future; the loop checks
\* the flag, and when it is set cancels the futures and raises inside the
\* with block.
PoolWait ==
    /\ pc = "pool_wait"
    /\ \E p \in DOMAIN futures :
          /\ futures[p].state = "done"
          /\ checks' = Checked(checks, "pool_wait")
          /\ IF cancel_event
             THEN /\ futures' = [q \in DOMAIN futures |->
                                    IF futures[q].state = "pending"
                                    THEN [futures[q] EXCEPT !.state = "cancelled"]
                                    ELSE futures[q]]
                  /\ outcome' = [exc |-> "InterruptedError", line |-> 227]
                  /\ hash_results' = <<>>
                  /\ order' = <<>>
                  /\ pc' = "pool_exit"
                  /\ UNCHANGED cur
             ELSE /\ cur' = p
                  /\ pc' = "pool_result"
                  /\ UNCHANGED <<futures, outcome, hash_results, order>>
    /\ UNCHANGED <<fsVars, matchVars, finderVars, args, files, idx, groups, completed, catalog,
                   entry, ticks, hashed_ok, mid_cancel>>

\* Lines 229-241: collect the future's result, count it, report progress
\* when a callback is set (which checks the flag); after the last future
\* the with block ends and the mapping is returned.
PoolCollect ==
    /\ pc = "pool_result"
    /\ LET h == futures[cur].result
           n == Len(all_files)
       IN  /\ futures' = [futures EXCEPT ![cur].state = "collected"]
           /\ ticks' = Ticked(ticks, idx + 1, n)
           /\ checks' = IF progress_callback THEN Checked(checks, "progress")
                        ELSE checks
           /\ idx' = idx + 1
           /\ cur' = NoPath
           /\ IF LoopProgressRaises
              THEN /\ outcome' = [exc |-> "InterruptedError", line |-> 162]
                   /\ hash_results' = <<>>
                   /\ order' = <<>>
                   /\ pc' = "pool_exit"
              ELSE /\ hash_results' = StoreHash(hash_results, cur, h)
                   /\ order' = Append(order, cur)
                   /\ pc' = IF idx + 1 = n THEN "build" ELSE "pool_wait"
                   /\ UNCHANGED outcome
    /\ UNCHANGED <<fsVars, matchVars, finderVars, args, files, groups, completed, catalog,
                   entry, hashed_ok, mid_cancel>>

\* The with block's exit on an exception: shutdown(wait=True) returns once
\* no unit is pending or running, then the exception leaves the call.
PoolExit ==
    /\ pc = "pool_exit"
    /\ \A p \in DOMAIN futures : futures[p].state \notin {"pending", "running"}
    /\ pc' = "idle"
    /\ ResetLocals
    /\ UNCHANGED <<fsVars, matchVars, finderVars, outcome, groups, histVars>>

(* ------------------------------ queries ------------------------------ *)

\* filenames = [os.path.basename(path) for path in file_paths]; set(filenames)
Filenames(paths) == {basename(paths[k]) : k \in 1..Len(paths)}

\* len(file_paths) > 1
IsDuplicateBucket(b) == Len(b.paths) > 1

\* A bug of the name test: "more than two names" for "more than one".
HasDifferentNames_MoreThanTwo(b) == Cardinality(Filenames(b.paths)) > 2

\* len(set(filenames)) > 1
HasDifferentNames(b) == Cardinality(Filenames(b.paths)) > 1

\* len(set(filenames)) == 1
HasOneName(b) == Cardinality(Filenames(b.paths)) = 1

\* A bug of find_all_duplicates: every bucket is returned.
find_all_duplicates_EveryBucket == Groups(file_hashes)

find_all_duplicates ==
    Groups(SelectSeq(file_hashes, IsDuplicateBucket))

find_identical_content_different_names ==
    Groups(SelectSeq(file_hashes,
                     LAMBDA b : IsDuplicateBucket(b) /\ HasDifferentNames(b)))

find_duplicates_same_name ==
    Groups(SelectSeq(file_hashes,
                     LAMBDA b : IsDuplicateBucket(b) /\ HasOneName(b)))

\* for h, paths in self.file_hashes.items(): if path in paths: file_hash = h
CachedHash(p) ==
    IF \E n \in 1..Len(file_hashes) : p \in Range(file_hashes[n].paths)
    THEN LET first == CHOOSE n \in 1..Len(file_hashes) :
                         /\ p \in Range(file_hashes[n].paths)
                         /\ \A m \in 1..(n - 1) :
                                p \notin Range(file_hashes[m].paths)
         IN  file_hashes[first].key
    ELSE NoHash

\* if not file_hash: file_hash = self.calculate_file_hash(path)
HashFor(p) ==
    IF CachedHash(p) = NoHash THEN calculate_file_hash(p) ELSE CachedHash(p)

\* The set hashes of a bucket: if file_hash: hashes.add(file_hash).  Digests
\* and error strings are non-empty strings, so every one is added.
HashSet(paths) == {HashFor(paths[k]) : k \in 1..Len(paths)}

\* len(hashes) > 1
DifferentContent(paths) == Cardinality(HashSet(paths)) > 1

\* The set extensions of a bucket.
Extensions(paths) == {splitext(basename(paths[k]))[2] : k \in 1..Len(paths)}

\* Pass 1 (lines 328-351): the exact-filename buckets that are emitted.
Pass1 ==
    SelectSeq(file_names,
              LAMBDA b : Len(b.paths) > 1 /\ DifferentContent(b.paths))

\* A different rule for pass 2: every path of an exact-filename bucket of
\* two or more paths is claimed, emitted or not.
processed_groups_AnyBucket ==
    UNION {Range(file_names[n].paths) :
              n \in {m \in 1..Len(file_names) : Len(file_names[m].paths) > 1}}

\* A bug of pass 2: the paths pass 1 emitted are not left out.
processed_groups_Empty == {}

\* processed_groups after pass 1.
processed_groups == UNION {Range(Pass1[n].paths) : n \in 1..Len(Pass1)}

\* Lines 354-361: base_name_groups over the paths of all_files that are
\* not in processed_groups.
RECURSIVE BaseNameGroups(_, _)
BaseNameGroups(d, paths) ==
    IF paths = <<>> THEN d
    ELSE LET p == Head(paths)
         IN  BaseNameGroups(IF p \notin processed_groups
                            THEN DictAppend(d, splitext(basename(p))[1], p)
                            ELSE d,
                            Tail(paths))

\* Pass 2 (lines 363-392): the base-name buckets that are emitted.
Pass2Emits(b) ==
    /\ Len(b.paths) > 1
    /\ Cardinality(Extensions(b.paths)) > 1
    /\ DifferentContent(b.paths)

Pass2 == SelectSeq(BaseNameGroups(<<>>, all_files), Pass2Emits)

find_same_names_different_content == Groups(Pass1) \o Groups(Pass2)

\* The caller runs the queries on the finder (gui_app.py perform_scan,
\* file_similarity_finder.py main) and holds their results.
Classify ==
    /\ pc = "idle"
    /\ groups' = [queried |-> TRUE,
                  all_duplicates |-> find_all_duplicates,
                  identical_content |-> find_identical_content_different_names,
                  duplicates_same_name |-> find_duplicates_same_name,
                  same_names |-> find_same_names_different_content]
    /\ UNCHANGED <<fsVars, matchVars, finderVars, pc, args, files, hash_results, order, idx,
                   futures, cur, outcome, histVars>>

(* ------------------------------ scoring ------------------------------- *)

\* The characters of the names, in code point order.
Chars ==
    << " ", "-", ".", "A", "B", "R", "_", "a", "b", "c", "d", "e", "i", "k",
       "l", "n", "o", "p", "r", "s", "t", "u", "x" >>

Ord(c) == CHOOSE n \in 1..Len(Chars) : Chars[n] = c

\* str.lower
lower(s) ==
    [n \in 1..Len(s) |->
        CASE s[n] = "A" -> "a" [] s[n] = "B" -> "b" [] s[n] = "R" -> "r"
          [] OTHER -> s[n]]

\* The text of a name's segments: they are joined by dots again.
RECURSIVE Dotted(_)
Dotted(segs) ==
    IF segs = <<>> THEN <<>>
    ELSE IF Len(segs) = 1 THEN segs[1]
    ELSE segs[1] \o <<".">> \o Dotted(Tail(segs))

\* os.path.splitext(name)[0] as text.
BaseText(name) == Dotted(splitext(name)[1])

\* A score is a rational number [num, den], den > 0, in lowest terms.
RECURSIVE GCD(_, _)
GCD(m, n) == IF n = 0 THEN m ELSE GCD(n, m % n)

Frac(n, d) ==
    IF n = 0 THEN [num |-> 0, den |-> 1]
    ELSE [num |-> n \div GCD(n, d), den |-> d \div GCD(n, d)]

Whole(n) == [num |-> n, den |-> 1]

\* x >= y on scores
Geq(x, y) == x.num * y.den >= y.num * x.den

\* int(round(x)): to the nearest integer, a half to the even one.
intr(x) ==
    LET q == x.num \div x.den
        r == x.num % x.den
    IN  IF 2 * r < x.den THEN q
        ELSE IF 2 * r > x.den THEN q + 1
        ELSE IF q % 2 = 0 THEN q ELSE q + 1

\* difflib.SequenceMatcher.find_longest_match without junk: the longest
\* block a[i:i+k] == b[j:j+k] inside a[alo:ahi] and b[blo:bhi]; of the
\* longest, the one starting earliest in a, and of those the one starting
\* earliest in b.  Indices count from 0 as in the library.
find_longest_match(a, b, alo, ahi, blo, bhi) ==
    LET Min(x, y) == IF x < y THEN x ELSE y
        Blocks == {m \in (alo..(ahi - 1)) \X (blo..(bhi - 1)) \X (1..(ahi - alo)) :
                      /\ m[3] <= Min(ahi - m[1], bhi - m[2])
                      /\ \A d \in 0..(m[3] - 1) : a[m[1] + d + 1] = b[m[2] + d + 1]}
        Better(m, n) ==
            \/ m[3] > n[3]
            \/ m[3] = n[3] /\ m[1] < n[1]
            \/ m[3] = n[3] /\ m[1] = n[1] /\ m[2] < n[2]
    IN  IF Blocks = {} THEN <<alo, blo, 0>>
        ELSE CHOOSE m \in Blocks : \A n \in Blocks \ {m} : Better(m, n)

\* difflib.SequenceMatcher.get_matching_blocks: the longest block, then
\* the same to its left and to its right.
RECURSIVE matching_blocks(_, _, _, _, _, _)
matching_blocks(a, b, alo, ahi, blo, bhi) ==
    LET m == find_longest_match(a, b, alo, ahi, blo, bhi)
        i == m[1]
        j == m[2]
        k == m[3]
    IN  IF k = 0 THEN {}
        ELSE {m}
             \cup (IF alo < i /\ blo < j
                   THEN matching_blocks(a, b, alo, i, blo, j) ELSE {})
             \cup (IF i + k < ahi /\ j + k < bhi
                   THEN matching_blocks(a, b, i + k, ahi, j + k, bhi) ELSE {})

get_matching_blocks(a, b) ==
    matching_blocks(a, b, 0, Len(a), 0, Len(b)) \cup {<<Len(a), Len(b), 0>>}

RECURSIVE SumSizes(_)
SumSizes(blocks) ==
    IF blocks = {} THEN 0
    ELSE LET m == CHOOSE x \in blocks : TRUE
         IN  m[3] + SumSizes(blocks \ {m})

\* difflib.SequenceMatcher(None, a, b).ratio(): 2.0 * M / T, 1.0 when both
\* are empty.
SequenceMatcher_ratio(a, b) ==
    IF Len(a) + Len(b) = 0 THEN Whole(1)
    ELSE Frac(2 * SumSizes(get_matching_blocks(a, b)), Len(a) + Len(b))

Times100(x) == Frac(100 * x.num, x.den)

\* fuzz.ratio: 100 for equal strings, 0 when one is empty, else the
\* rounded percentage of the matcher's ratio.
fuzz_ratio(s1, s2) ==
    IF s1 = s2 THEN 100
    ELSE IF Len(s1) = 0 \/ Len(s2) = 0 THEN 0
    ELSE intr(Times100(SequenceMatcher_ratio(s1, s2)))

\* s[lo:hi], indices from 0, clipped at the end as a slice is.
Slice(s, lo, hi) ==
    SubSeq(s, lo + 1, IF hi < Len(s) THEN hi ELSE Len(s))

\* fuzz.partial_ratio: the best ratio of the shorter string against the
\* windows of the longer one that the matching blocks point at.
fuzz_partial_ratio(s1, s2) ==
    IF s1 = s2 THEN 100
    ELSE IF Len(s1) = 0 \/ Len(s2) = 0 THEN 0
    ELSE LET shorter == IF Len(s1) <= Len(s2) THEN s1 ELSE s2
             longer == IF Len(s1) <= Len(s2) THEN s2 ELSE s1
             Window(block) ==
                 LET long_start == IF block[2] - block[1] > 0
                                   THEN block[2] - block[1] ELSE 0
                 IN  Slice(longer, long_start, long_start + Len(shorter))
             scores == {SequenceMatcher_ratio(shorter, Window(block)) :
                            block \in get_matching_blocks(shorter, longer)}
             best == CHOOSE x \in scores : \A y \in scores : Geq(x, y)
         IN  intr(Times100(best))

\* \W of the fuzz preprocessing: neither a letter, a digit nor "_".
NonWord(c) == c \in {" ", "-", "."}

RECURSIVE lstrip(_)
lstrip(s) == IF s # <<>> /\ s[1] = " " THEN lstrip(Tail(s)) ELSE s

RECURSIVE rstrip(_)
rstrip(s) ==
    IF s # <<>> /\ s[Len(s)] = " " THEN rstrip(SubSeq(s, 1, Len(s) - 1)) ELSE s

\* str.strip
strip(s) == rstrip(lstrip(s))

\* utils.full_process: non-word characters become blanks, then lower and
\* strip.
full_process(s) ==
    strip(lower([n \in 1..Len(s) |-> IF NonWord(s[n]) THEN " " ELSE s[n]]))

\* str.split(): the maximal runs without blanks.
RECURSIVE split(_)
split(s) ==
    LET t == lstrip(s)
        stops == {n \in 1..Len(t) : t[n] = " "}
        end == IF stops = {} THEN Len(t) + 1
               ELSE CHOOSE n \in stops : \A m \in stops : n <= m
    IN  IF t = <<>> THEN <<>>
        ELSE <<SubSeq(t, 1, end - 1)>> \o split(SubSeq(t, end, Len(t)))

\* x < y on str: by code points, a proper prefix first.
RECURSIVE StrLess(_, _)
StrLess(x, y) ==
    IF y = <<>> THEN FALSE
    ELSE IF x = <<>> THEN TRUE
    ELSE IF x[1] # y[1] THEN Ord(x[1]) < Ord(y[1])
    ELSE StrLess(Tail(x), Tail(y))

\* sorted(tokens)
RECURSIVE sorted(_)
sorted(tokens) ==
    IF tokens = <<>> THEN <<>>
    ELSE LET n == CHOOSE n \in 1..Len(tokens) :
                      /\ \A m \in 1..Len(tokens) : ~StrLess(tokens[m], tokens[n])
                      /\ \A m \in 1..(n - 1) : tokens[m] # tokens[n]
         IN  <<tokens[n]>>
             \o sorted(SubSeq(tokens, 1, n - 1) \o SubSeq(tokens, n + 1, Len(tokens)))

\* sorted(token_set)
RECURSIVE sorted_set(_)
sorted_set(tokens) ==
    IF tokens = {} THEN <<>>
    ELSE LET t == CHOOSE t \in tokens : \A u \in tokens : ~StrLess(u, t)
         IN  <<t>> \o sorted_set(tokens \ {t})

\* " ".join(tokens)
RECURSIVE join(_)
join(tokens) ==
    IF tokens = <<>> THEN <<>>
    ELSE IF Len(tokens) = 1 THEN tokens[1]
    ELSE tokens[1] \o <<" ">> \o join(Tail(tokens))

\* fuzz._process_and_sort
process_and_sort(s) == strip(join(sorted(split(full_process(s)))))

\* fuzz.token_sort_ratio
fuzz_token_sort_ratio(s1, s2) ==
    fuzz_ratio(process_and_sort(s1), process_and_sort(s2))

\* fuzz.token_set_ratio: the best of the three ratios among the common
\* tokens and the common tokens followed by either side's own tokens.
fuzz_token_set_ratio(s1, s2) ==
    LET p1 == full_process(s1)
        p2 == full_process(s2)
        tokens1 == Range(split(p1))
        tokens2 == Range(split(p2))
        sorted_sect == join(sorted_set(tokens1 \cap tokens2))
        combined_1to2 ==
            strip(sorted_sect \o <<" ">> \o join(sorted_set(tokens1 \ tokens2)))
        combined_2to1 ==
            strip(sorted_sect \o <<" ">> \o join(sorted_set(tokens2 \ tokens1)))
        pairwise == {fuzz_ratio(strip(sorted_sect), combined_1to2),
                     fuzz_ratio(strip(sorted_sect), combined_2to1),
                     fuzz_ratio(combined_1to2, combined_2to1)}
    IN  IF Len(p1) = 0 \/ Len(p2) = 0 THEN 0
        ELSE CHOOSE x \in pairwise : \A y \in pairwise : x >= y

Methods ==
    {"ratio", "partial_ratio", "token_sort_ratio", "token_set_ratio",
     "sequence_matcher"}

\* The dispatch on the method's name; an unknown name scores as ratio.
Similarity(base1, base2, method) ==
    CASE method = "ratio" -> Whole(fuzz_ratio(base1, base2))
      [] method = "partial_ratio" -> Whole(fuzz_partial_ratio(base1, base2))
      [] method = "token_sort_ratio" -> Whole(fuzz_token_sort_ratio(base1, base2))
      [] method = "token_set_ratio" -> Whole(fuzz_token_set_ratio(base1, base2))
      [] method = "sequence_matcher" -> Times100(SequenceMatcher_ratio(base1, base2))
      [] OTHER -> Whole(fuzz_ratio(base1, base2))

\* FileSimilarityFinder.calculate_name_similarity: the extensions are
\* removed, the rest is compared in lower case.
calculate_name_similarity(name1, name2, method) ==
    Similarity(lower(BaseText(name1)), lower(BaseText(name2)), method)

Next ==
    \/ NewFinder
    \/ \E callback \in BOOLEAN : set_progress_callback(callback)
    \/ cancel_operation
    \/ reset_cancellation
    \/ \E exists, recursive \in BOOLEAN : scan_directory(exists, recursive)
    \/ ScanCatalog
    \/ ScanFound
    \/ SeqCheck
    \/ SeqHash
    \/ BuildMappings
    \/ \E p \in Range(Tree) : WorkerStart(p)
    \/ \E p \in Range(Tree) : WorkerFinish(p)
    \/ PoolWait
    \/ PoolCollect
    \/ PoolExit
    \/ Classify

Spec == Init /\ [][Next]_vars

(* ---------------------------- the matcher ----------------------------- *)

\* A bug of the slicing: each chunk holds only its first pair.
Chunk_FirstOnly(k) ==
    SubSeq(file_pairs, (k - 1) * ChunkSize + 1, (k - 1) * ChunkSize + 1)

\* chunks[k - 1]: file_pairs[i:i + chunk_size] with i = (k - 1) * chunk_size
Chunk(k) ==
    SubSeq(file_pairs, (k - 1) * ChunkSize + 1,
           IF k * ChunkSize < total_pairs THEN k * ChunkSize ELSE total_pairs)

\* A bug of the filter: a score equal to the threshold is dropped.
Retained_Strictly(similarity, threshold) ==
    Geq(similarity, threshold) /\ ~Geq(threshold, similarity)

\* similarity >= threshold
Retained(similarity, threshold) == Geq(similarity, threshold)

\* A bug of the chunk filter: the comparison is the wrong way round.
ChunkRetained_Flipped(similarity, threshold) == Geq(threshold, similarity)

\* similarity >= threshold, in the chunk worker
ChunkRetained(similarity, threshold) == Geq(similarity, threshold)

\* The scoring inside process_similarity_chunk: as
\* calculate_name_similarity, written out in the worker.
chunk_similarity(name1, name2, method) ==
    Similarity(lower(BaseText(name1)), lower(BaseText(name2)), method)

\* A bug of the chunk worker: pairs of equal names are scored too.
ChunkScores_SameNamesToo(pairs) == pairs

\* The pairs of a chunk that process_similarity_chunk scores: those whose
\* basenames differ.
ChunkScores(pairs) ==
    SelectSeq(pairs, LAMBDA pr : basename(pr[1]) # basename(pr[2]))

\* process_similarity_chunk: the scored pairs that reach the threshold,
\* with their scores.
process_similarity_chunk(pairs, method, threshold) ==
    LET kept == SelectSeq(ChunkScores(pairs), LAMBDA pr :
                    ChunkRetained(chunk_similarity(basename(pr[1]),
                                                   basename(pr[2]), method),
                                  threshold))
    IN  [k \in 1..Len(kept) |->
            <<kept[k][1], kept[k][2],
              chunk_similarity(basename(kept[k][1]), basename(kept[k][2]), method)>>]

\* similar_pairs.sort(key=lambda x: x[2], reverse=True): descending by
\* score; the sort is stable, also when reversed, so entries of equal score
\* keep their order.
RECURSIVE sort_by_similarity(_)
sort_by_similarity(pairs) ==
    IF pairs = <<>> THEN <<>>
    ELSE LET n == CHOOSE n \in 1..Len(pairs) :
                      /\ \A m \in 1..Len(pairs) : Geq(pairs[n][3], pairs[m][3])
                      /\ \A m \in 1..(n - 1) : ~Geq(pairs[m][3], pairs[n][3])
         IN  <<pairs[n]>>
             \o sort_by_similarity(SubSeq(pairs, 1, n - 1)
                                   \o SubSeq(pairs, n + 1, Len(pairs)))

ResetSimLocals ==
    /\ count' = 0
    /\ processed_pairs' = {}
    /\ similar_pairs' = <<>>
    /\ future_to_chunk' = <<>>
    /\ cur_chunk' = 0

\* The matcher call ends, outside a pool: by an exception raised at the
\* given line, or by returning the list.
SimEnd(exc, line, result) ==
    /\ sim_pc' = "idle"
    /\ sim_outcome' = [exc |-> exc, line |-> line]
    /\ sim_result' = result
    /\ ResetSimLocals

\* self._update_progress(message, percentage) in the matcher, logged:
\* percentage is done / total * 100, or None (0 of 0).
SimTicked(log, done, total) == Append(log, [done |-> done, total |-> total])

\* An update after every comparison, whatever its number.
ProgressDue_Always(comparison_count) == TRUE

\* if comparison_count % 100 == 0, with the period scaled.
ProgressDue(comparison_count) == comparison_count % ProgressEvery = 0

\* A matcher call starts; the version that runs it makes its first
\* progress update (lines 421, 483) unless there is nothing to compare.
SimBegin(threshold, method, via) ==
    /\ pc = "idle"
    /\ sim_pc = "idle"
    /\ sim_calls' = sim_calls + 1
    /\ sim_args' = [threshold |-> threshold, method |-> method, via |-> via]
    /\ scored' = <<>>
    /\ sim_cancel' = NoCancel
    /\ last_call' = IF sim_outcome.exc = "returned"
                    THEN [threshold |-> sim_args.threshold,
                          method |-> sim_args.method,
                          via |-> sim_args.via,
                          pairs |-> sim_result]
                    ELSE last_call
    /\ sim_ticks' = IF via = "pool" /\ Len(all_files) < 2
                    THEN <<>>
                    ELSE SimTicked(<<>>, 0, 0)

\* Lines 418-421 of find_similar_names_parallel: nothing to compare with
\* less than two files; else the first progress update, which reads the
\* flag.
ParallelEntry ==
    IF Len(all_files) < 2
    THEN SimEnd("returned", 0, <<>>)
    ELSE IF cancel_event
    THEN SimEnd("InterruptedError", 162, <<>>)
    ELSE /\ sim_pc' = "generated"
         /\ sim_outcome' = NoOutcome
         /\ sim_result' = <<>>
         /\ ResetSimLocals

\* find_similar_names, lines 469-483: the pool version for a large
\* catalog; else the first progress update of the sequential version.
find_similar_names(threshold, method) ==
    /\ sim_calls = 0
    /\ SimBegin(threshold, method,
                IF Len(all_files) > ParallelOver THEN "pool" ELSE "sequential")
    /\ IF Len(all_files) > ParallelOver
       THEN ParallelEntry
       ELSE IF cancel_event
       THEN SimEnd("InterruptedError", 162, <<>>)
       ELSE /\ sim_pc' = "cmp"
            /\ sim_outcome' = NoOutcome
            /\ sim_result' = <<>>
            /\ ResetSimLocals
    /\ UNCHANGED <<fsVars, finderVars, scanVars, histVars, shutdown, scoreVars, cancelVars>>

\* find_similar_names_parallel called by itself.
find_similar_names_parallel(threshold, method) ==
    /\ sim_calls = 0
    /\ SimBegin(threshold, method, "pool")
    /\ ParallelEntry
    /\ UNCHANGED <<fsVars, finderVars, scanVars, histVars, shutdown, scoreVars, cancelVars>>

\* The search is repeated on the same catalog with the same method and
\* another threshold, after a call that returned: find_similar_names ...
find_similar_names_again(threshold) ==
    /\ sim_calls \in 1..(MaxCalls - 1)
    /\ sim_outcome.exc = "returned"
    /\ SimBegin(threshold, sim_args.method,
                IF Len(all_files) > ParallelOver THEN "pool" ELSE "sequential")
    /\ IF Len(all_files) > ParallelOver
       THEN ParallelEntry
       ELSE IF cancel_event
       THEN SimEnd("InterruptedError", 162, <<>>)
       ELSE /\ sim_pc' = "cmp"
            /\ sim_outcome' = NoOutcome
            /\ sim_result' = <<>>
            /\ ResetSimLocals
    /\ UNCHANGED <<fsVars, finderVars, scanVars, histVars, shutdown, scoreVars, cancelVars>>

\* ... or find_similar_names_parallel.
find_similar_names_parallel_again(threshold) ==
    /\ sim_calls \in 1..(MaxCalls - 1)
    /\ sim_outcome.exc = "returned"
    /\ SimBegin(threshold, sim_args.method, "pool")
    /\ ParallelEntry
    /\ UNCHANGED <<fsVars, finderVars, scanVars, histVars, shutdown, scoreVars, cancelVars>>

\* Lines 485-507: one pass of the inner loop.  A pair of equal names is
\* skipped before it is scored and before the progress update.
SimCompare ==
    /\ sim_pc = "cmp"
    /\ count < total_pairs
    /\ LET file1 == file_pairs[count + 1][1]
           file2 == file_pairs[count + 1][2]
           name1 == basename(file1)
           name2 == basename(file2)
           pair_key == {file1, file2}
           similarity == calculate_name_similarity(name1, name2, sim_args.method)
       IN  IF pair_key \in processed_pairs \/ name1 = name2
           THEN /\ count' = count + 1
                /\ UNCHANGED <<sim_pc, processed_pairs, similar_pairs,
                               sim_outcome, sim_result, scored, future_to_chunk,
                               cur_chunk, sim_ticks>>
           ELSE /\ scored' = Append(scored, <<file1, file2>>)
                /\ sim_ticks' = IF ProgressDue(count + 1)
                                THEN SimTicked(sim_ticks, count + 1, total_pairs)
                                ELSE sim_ticks
                /\ IF ProgressDue(count + 1) /\ cancel_event
                   THEN SimEnd("InterruptedError", 162, <<>>)
                   ELSE /\ count' = count + 1
                        /\ processed_pairs' = processed_pairs \cup {pair_key}
                        /\ similar_pairs' =
                               IF Retained(similarity, sim_args.threshold)
                               THEN Append(similar_pairs, <<file1, file2, similarity>>)
                               ELSE similar_pairs
                        /\ UNCHANGED <<sim_pc, sim_outcome, sim_result,
                                       future_to_chunk, cur_chunk>>
    /\ UNCHANGED <<fsVars, finderVars, scanVars, histVars, sim_args, shutdown,
                   sim_calls, sim_cancel, last_call, scoreVars, cancelVars>>

\* Lines 509-511: the loops are over; sort and return.
SimSeqReturn ==
    /\ sim_pc = "cmp"
    /\ count = total_pairs
    /\ SimEnd("returned", 0, sort_by_similarity(similar_pairs))
    /\ UNCHANGED <<fsVars, finderVars, scanVars, histVars, sim_args, shutdown,
                   simHistVars, scoreVars, cancelVars>>

\* The pool call ends inside the with block: the exception is on its way
\* out, the executor is still to be shut down and waited for.
ParRaise(exc, line) ==
    /\ sim_pc' = "exit"
    /\ sim_outcome' = [exc |-> exc, line |-> line]
    /\ sim_result' = <<>>

\* Lines 424-429: the pairs are generated, the flag is read.
ParGenerated ==
    /\ sim_pc = "generated"
    /\ IF cancel_event
       THEN SimEnd("InterruptedError", 429, <<>>)
       ELSE /\ sim_pc' = "pairs"
            /\ UNCHANGED <<count, processed_pairs, similar_pairs, future_to_chunk,
                           cur_chunk, sim_outcome, sim_result>>
    /\ UNCHANGED <<fsVars, finderVars, scanVars, histVars, sim_args, shutdown,
                   simHistVars, scoreVars, cancelVars>>

\* Line 431: the progress update before the chunks are made.
ParComparing ==
    /\ sim_pc = "pairs"
    /\ sim_ticks' = SimTicked(sim_ticks, 0, 0)
    /\ IF cancel_event
       THEN SimEnd("InterruptedError", 162, <<>>)
       ELSE /\ sim_pc' = "open"
            /\ UNCHANGED <<count, processed_pairs, similar_pairs, future_to_chunk,
                           cur_chunk, sim_outcome, sim_result>>
    /\ UNCHANGED <<fsVars, finderVars, scanVars, histVars, sim_args, shutdown,
                   sim_calls, scored, sim_cancel, last_call, scoreVars, cancelVars>>

\* Lines 434-440: the chunks, a new executor, and self.current_executor
\* set to it.
ParOpen ==
    /\ sim_pc = "open"
    /\ sim_pc' = "submit"
    /\ current_executor' = "executor"
    /\ shutdown' = FALSE
    /\ future_to_chunk' = [k \in 1..NumChunks |-> [state |-> "new", result |-> <<>>]]
    /\ UNCHANGED <<fsVars, file_hashes, file_names, all_files, progress_callback,
                   cancel_event, scanVars, histVars, sim_args, count,
                   processed_pairs, similar_pairs, cur_chunk, sim_outcome,
                   sim_result, simHistVars, scoreVars, cancelVars>>

\* executor.submit raises RuntimeError once the executor was shut down.
SubmitRefused == shutdown

\* Lines 443-445: one executor.submit of the dict comprehension.  It is
\* outside the try block: self.current_executor stays set when it raises.
ParSubmit ==
    /\ sim_pc = "submit"
    /\ LET k == CHOOSE k \in 1..NumChunks :
                    /\ future_to_chunk[k].state = "new"
                    /\ \A m \in 1..(k - 1) : future_to_chunk[m].state # "new"
       IN  IF SubmitRefused
           THEN /\ ParRaise("RuntimeError", 444)
                /\ UNCHANGED future_to_chunk
           ELSE /\ future_to_chunk' =
                       [future_to_chunk EXCEPT ![k].state = "pending"]
                /\ sim_pc' = IF k = NumChunks THEN "wait" ELSE "submit"
                /\ UNCHANGED <<sim_outcome, sim_result>>
    /\ UNCHANGED <<fsVars, finderVars, scanVars, histVars, sim_args, count,
                   processed_pairs, similar_pairs, cur_chunk, shutdown,
                   simHistVars, scoreVars, cancelVars>>

\* A bug of the clean-up: the executor stays tracked.
FinallyExecutor_Kept == current_executor

\* Lines 462-463, finally: self.current_executor = None
FinallyExecutor == "None"

ChunksIn(states) ==
    {k \in 1..Len(future_to_chunk) : future_to_chunk[k].state \in states}

\* A worker process takes the oldest pending chunk.
ChunkStart(k) ==
    /\ k \in ChunksIn({"pending"})
    /\ \A m \in ChunksIn({"pending"}) : k <= m
    /\ Cardinality(ChunksIn({"running"})) < MaxWorkers
    /\ future_to_chunk' = [future_to_chunk EXCEPT ![k].state = "running"]
    /\ UNCHANGED <<fsVars, finderVars, scanVars, histVars, sim_pc, sim_args,
                   count, processed_pairs, similar_pairs, cur_chunk, shutdown,
                   sim_outcome, sim_result, simHistVars, scoreVars, cancelVars>>

\* The worker returns the chunk's result.
ChunkFinish(k) ==
    /\ k \in ChunksIn({"running"})
    /\ future_to_chunk' =
           [future_to_chunk EXCEPT ![k] =
               [state |-> "done",
                result |-> process_similarity_chunk(Chunk(k), sim_args.method,
                                                    sim_args.threshold)]]
    /\ scored' = scored \o ChunkScores(Chunk(k))
    /\ UNCHANGED <<fsVars, finderVars, scanVars, histVars, sim_pc, sim_args,
                   count, processed_pairs, similar_pairs, cur_chunk, shutdown,
                   sim_outcome, sim_result, sim_calls, sim_cancel, last_call,
                   sim_ticks, scoreVars, cancelVars>>

\* The worker raises an exception the chunk function does not expect.
ChunkFail(k) ==
    /\ k \in ChunksIn({"running"})
    /\ Cardinality(ChunksIn({"failed", "raised"})) < MaxFailures
    /\ future_to_chunk' = [future_to_chunk EXCEPT ![k].state = "failed"]
    /\ UNCHANGED <<fsVars, finderVars, scanVars, histVars, sim_pc, sim_args,
                   count, processed_pairs, similar_pairs, cur_chunk, shutdown,
                   sim_outcome, sim_result, simHistVars, scoreVars, cancelVars>>

\* Lines 448-454: as_completed yields a finished future; the flag is read.
\* When it is set the futures are cancelled (those not started yet stay
\* cancelled), the finally clause clears self.current_executor.
ParWait(k) ==
    /\ sim_pc = "wait"
    /\ k \in ChunksIn({"done", "failed"})
    /\ IF cancel_event
       THEN /\ ParRaise("InterruptedError", 454)
            /\ future_to_chunk' =
                   [m \in 1..NumChunks |->
                       IF future_to_chunk[m].state = "pending"
                       THEN [future_to_chunk[m] EXCEPT !.state = "cancelled"]
                       ELSE future_to_chunk[m]]
            /\ current_executor' = FinallyExecutor
            /\ UNCHANGED cur_chunk
       ELSE /\ sim_pc' = "result"
            /\ cur_chunk' = k
            /\ UNCHANGED <<future_to_chunk, current_executor, sim_outcome,
                           sim_result>>
    /\ UNCHANGED <<fsVars, file_hashes, file_names, all_files, progress_callback,
                   cancel_event, scanVars, histVars, sim_args, count,
                   processed_pairs, similar_pairs, shutdown, simHistVars,
                   scoreVars, cancelVars>>

\* Lines 456-461: future.result() re-raises what the worker raised; else
\* the chunk's pairs are appended and the progress update reads the flag.
\* Every exit from the try block runs the finally clause.
ParCollect ==
    /\ sim_pc = "result"
    /\ IF future_to_chunk[cur_chunk].state = "failed"
       THEN /\ ParRaise("WorkerError", 456)
            /\ future_to_chunk' =
                   [future_to_chunk EXCEPT ![cur_chunk].state = "raised"]
            /\ current_executor' = FinallyExecutor
            /\ UNCHANGED <<count, similar_pairs, sim_ticks>>
       ELSE /\ future_to_chunk' =
                   [future_to_chunk EXCEPT ![cur_chunk].state = "collected"]
            /\ similar_pairs' = similar_pairs \o future_to_chunk[cur_chunk].result
            /\ count' = count + 1
            /\ sim_ticks' = SimTicked(sim_ticks, count + 1, NumChunks)
            /\ IF cancel_event
               THEN /\ ParRaise("InterruptedError", 162)
                    /\ current_executor' = FinallyExecutor
               ELSE /\ sim_pc' = "wait"
                    /\ UNCHANGED <<current_executor, sim_outcome, sim_result>>
    /\ cur_chunk' = 0
    /\ UNCHANGED <<fsVars, file_hashes, file_names, all_files, progress_callback,
                   cancel_event, scanVars, histVars, sim_args, processed_pairs,
                   shutdown, sim_calls, scored, sim_cancel, last_call,
                   scoreVars, cancelVars>>

\* Lines 462-467: every chunk is collected; the finally clause, the end of
\* the with block, the sort and the return.
ParReturn ==
    /\ sim_pc = "wait"
    /\ count = NumChunks
    /\ current_executor' = FinallyExecutor
    /\ SimEnd("returned", 0, sort_by_similarity(similar_pairs))
    /\ UNCHANGED <<fsVars, file_hashes, file_names, all_files, progress_callback,
                   cancel_event, scanVars, histVars, sim_args, shutdown,
                   simHistVars, scoreVars, cancelVars>>

\* The end of the with block on the way out of an exception:
\* executor.shutdown(wait=True) returns when no submitted chunk is pending
\* or running any more.
ParExit ==
    /\ sim_pc = "exit"
    /\ ChunksIn({"pending", "running"}) = {}
    /\ sim_pc' = "idle"
    /\ ResetSimLocals
    /\ UNCHANGED <<fsVars, finderVars, scanVars, histVars, sim_args, shutdown,
                   sim_outcome, sim_result, simHistVars, scoreVars, cancelVars>>

\* The state a completed scan of the directory leaves, from which the
\* matcher is called.  The names alone matter to it: every file is
\* readable and the contents are equal.
InitSim ==
    /\ fs_files \in {S \in SUBSET FilePaths : Cardinality(S) <= MaxNames}
    /\ fs_links \in {S \in SUBSET {Link} :
                        Cardinality(fs_files) + Cardinality(S) <= MaxNames}
    /\ fs_content = [p \in Opens |-> 1]
    /\ fs_unreadable = {}
    /\ all_files = SelectSeq(listing(TRUE), is_file)
    /\ file_hashes = BuildHashes(<<>>, all_files, [p \in Opens |-> Digest(1)])
    /\ file_names = BuildNames(<<>>, all_files)
    /\ progress_callback = TRUE
    /\ cancel_event = FALSE
    /\ current_executor = "None"
    /\ pc = "idle"
    /\ args = NoArgs
    /\ files = <<>>
    /\ hash_results = <<>>
    /\ order = <<>>
    /\ idx = 0
    /\ futures = <<>>
    /\ cur = NoPath
    /\ outcome = [exc |-> "returned", line |-> 0]
    /\ groups = NoGroups
    /\ completed = 1
    /\ catalog = all_files
    /\ entry = NoSnapshot
    /\ checks = <<>>
    /\ ticks = <<>>
    /\ hashed_ok = Opens
    /\ mid_cancel = NoCancel
    /\ MatcherIdle
    /\ NotCancelling
    /\ NotScoring

\* The thresholds the calls are made with: each is the score of some pair
\* of the names under some method.
Thresholds == {Whole(18), Whole(36), Whole(100)}

SimNext ==
    \/ \E threshold \in Thresholds, method \in Methods :
           find_similar_names(threshold, method)
    \/ \E threshold \in Thresholds, method \in Methods :
           find_similar_names_parallel(threshold, method)
    \/ SimCompare
    \/ SimSeqReturn
    \/ ParGenerated
    \/ ParComparing
    \/ ParOpen
    \/ ParSubmit
    \/ \E k \in 1..Len(future_to_chunk) : ChunkStart(k)
    \/ \E k \in 1..Len(future_to_chunk) : ChunkFinish(k)
    \/ \E k \in 1..Len(future_to_chunk) : ChunkFail(k)
    \/ \E k \in 1..Len(future_to_chunk) : ParWait(k)
    \/ ParCollect
    \/ ParReturn
    \/ ParExit
    \/ cancel_operation
    \/ reset_cancellation

SimSpec == InitSim /\ [][SimNext]_vars

\* Repeated searches that run to their end: no cancellation, no failing
\* worker.
RepeatNext ==
    \/ \E threshold \in Thresholds, method \in Methods :
           find_similar_names(threshold, method)
    \/ \E threshold \in Thresholds, method \in Methods :
           find_similar_names_parallel(threshold, method)
    \/ \E threshold \in Thresholds : find_similar_names_again(threshold)
    \/ \E threshold \in Thresholds : find_similar_names_parallel_again(threshold)
    \/ SimCompare
    \/ SimSeqReturn
    \/ ParGenerated
    \/ ParComparing
    \/ ParOpen
    \/ ParSubmit
    \/ \E k \in 1..Len(future_to_chunk) : ChunkStart(k)
    \/ \E k \in 1..Len(future_to_chunk) : ChunkFinish(k)
    \/ \E k \in 1..Len(future_to_chunk) : ParWait(k)
    \/ ParCollect
    \/ ParReturn

RepeatSpec == InitSim /\ [][RepeatNext]_vars


(* ------------------------------- claims ------------------------------- *)

\* The paths of a mapping's buckets.
IndexedPaths(d) == UNION {Range(d[n].paths) : n \in 1..Len(d)}

\* The catalogued files that can be read.
Readable == Range(all_files) \ fs_unreadable

\* The sets of two or more readable catalogued files with equal content.
DuplicateSets ==
    {S \in {{p \in Readable : fs_content[p] = c} : c \in 1..MaxContents} :
        Cardinality(S) >= 2}

\* The first scan of a finder has returned and the queries have run.
FirstScanQueried ==
    /\ pc = "idle"
    /\ groups.queried
    /\ completed = 1
    /\ outcome.exc = "returned"

\* C1: after the first scan_directory of a finder has completed,
\* find_all_duplicates returns exactly one group for every set of two or
\* more files hashed to the same digest, holding all and only the files of
\* that set; every group has at least 2 members and no path is in two
\* groups (or twice in one).
C1_AllDuplicates ==
    FirstScanQueried =>
        LET g == groups.all_duplicates
        IN  /\ \A n \in 1..Len(g) : Len(g[n]) >= 2 /\ NoDuplicates(g[n])
            /\ \A n, m \in 1..Len(g) :
                   n # m => Range(g[n]) \cap Range(g[m]) = {}
            /\ {Range(g[n]) : n \in 1..Len(g)} = DuplicateSets
            /\ Len(g) = Cardinality(DuplicateSets)

\* A first scan through the pool found a duplicate group next to a file
\* that is in none.
C1_Witness ==
    /\ FirstScanQueried
    /\ Len(groups.all_duplicates) = 1
    /\ Len(all_files) >= SequentialLimit
    /\ Range(all_files) # Range(groups.all_duplicates[1])

\* C2: in every state of the index the groups of
\* find_identical_content_different_names and those of
\* find_duplicates_same_name are disjoint and together are exactly the
\* groups of find_all_duplicates.
C2_Partition ==
    groups.queried =>
        LET a == groups.all_duplicates
            d == groups.identical_content
            s == groups.duplicates_same_name
        IN  /\ Range(d) \cap Range(s) = {}
            /\ Range(d) \cup Range(s) = Range(a)
            /\ Len(d) + Len(s) = Len(a)

\* Both queries returned a group.
C2_Witness ==
    /\ groups.queried
    /\ Len(groups.identical_content) > 0
    /\ Len(groups.duplicates_same_name) > 0

\* C3: a second scan_directory on the same finder, over the same unmodified
\* directory and cataloguing the same files as the first, leaves
\* file_hashes and file_names as the first scan left them.
C3_Idempotent ==
    (/\ pc = "idle"
     /\ completed = 2
     /\ outcome.exc = "returned"
     /\ all_files = entry.catalog)
    => /\ file_hashes = entry.file_hashes
       /\ file_names = entry.file_names

\* The progress callbacks of the call that were made with the flag set.
LateTicks == Len(SelectSeq(ticks, LAMBDA t : t.cancelled))

IndexUnchanged ==
    /\ file_hashes = entry.file_hashes
    /\ file_names = entry.file_names

\* The flag was set during hashing, with a result still to collect, and the
\* call has ended.
CancelledMidHash == pc = "idle" /\ mid_cancel # NoCancel

\* The flag was set after the last check of the hashing loop: while the
\* last file was being hashed or collected, and no callback is set.
AfterLastCheck ==
    /\ ~progress_callback
    /\ mid_cancel.left = 1
    /\ mid_cancel.at \in {"seq_hash", "pool_result"}

\* C4 as claimed: when the cancel flag is set while calculate_hashes_parallel
\* has a result still to collect, the call fails with InterruptedError after
\* at most one further progress callback, returns no mapping, and
\* scan_directory leaves file_hashes and file_names unmodified.
C4_CancelFailsHashing ==
    /\ pc = "build" => mid_cancel = NoCancel
    /\ CancelledMidHash =>
          /\ outcome.exc = "InterruptedError"
          /\ outcome.line \in {162, 200, 227}
          /\ LateTicks <= 1
          /\ IndexUnchanged

\* C4 as amended: the call fails so unless no progress callback is set and
\* the flag is set after the loop's last check, where it returns its
\* mapping and scan_directory fails with InterruptedError at its own check;
\* in every case file_hashes and file_names are left unmodified.
C4_CancelFailsScan ==
    /\ (pc = "build" /\ mid_cancel # NoCancel) => AfterLastCheck
    /\ CancelledMidHash =>
          /\ outcome.exc = "InterruptedError"
          /\ outcome.line \in {162, 200, 227, 273}
          /\ outcome.line = 273 => AfterLastCheck
          /\ LateTicks <= 1
          /\ IndexUnchanged

\* The pool strategy on a finder that holds an index, cancelled before the
\* last result: one more callback, then the failure.
C4_Witness ==
    /\ CancelledMidHash
    /\ mid_cancel.at = "pool_result"
    /\ mid_cancel.left > 1
    /\ LateTicks = 1
    /\ outcome = [exc |-> "InterruptedError", line |-> 162]
    /\ file_hashes # <<>>

\* C5: unreadable files do not fail calculate_hashes_parallel: when it
\* returns, in either strategy, its mapping holds exactly the readable
\* paths, each with the digest of its content, and a call ends with an
\* exception only on a cancel check that read the flag set or on a missing
\* root.
C5_ErrorsIsolated ==
    /\ pc = "build" =>
          /\ DOMAIN hash_results = Readable
          /\ \A p \in Readable : hash_results[p] = Digest(fs_content[p])
    /\ outcome.exc \in {"none", "returned", "ValueError", "InterruptedError"}
    /\ (pc = "idle" /\ outcome.exc = "InterruptedError") =>
          checks[Len(checks)].set

\* The pool strategy returned a mapping for a catalog with an unreadable
\* file.
C5_Witness ==
    /\ pc = "build"
    /\ Len(all_files) >= SequentialLimit
    /\ Range(all_files) \cap fs_unreadable # {}
    /\ Readable # {}

ContentDigests(paths) == {Digest(fs_content[p]) : p \in Range(paths)}

BaseOf(p) == splitext(basename(p))[1]

ExtOf(p) == splitext(basename(p))[2]

SharesName(paths) ==
    \/ \A p, q \in Range(paths) : basename(p) = basename(q)
    \/ \A p, q \in Range(paths) : BaseOf(p) = BaseOf(q)

\* C7: every group of find_same_names_different_content has at least 2
\* member paths that share a filename or a base name, and the contents of
\* its members have at least 2 distinct digests, also when members were
\* left out of file_hashes by an I/O error and are hashed on demand.  Stated
\* for the queries that follow a completed scan.
C7_ConflictGroups ==
    (pc = "idle" /\ groups.queried /\ outcome.exc = "returned") =>
        \A n \in 1..Len(groups.same_names) :
            LET g == groups.same_names[n]
            IN  /\ Cardinality(Range(g)) >= 2
                /\ SharesName(g)
                /\ Cardinality(ContentDigests(g)) >= 2

\* The groups pass 1 and pass 2 contributed to the result.
Pass1Part == SubSeq(groups.same_names, 1, Len(Pass1))

Pass2Part == SubSeq(groups.same_names, Len(Pass1) + 1, Len(groups.same_names))

\* The catalogued paths that are in no group of pass 1, by base name.
Unclaimed ==
    SelectSeq(all_files,
              LAMBDA p : \A n \in 1..Len(Pass1Part) : p \notin Range(Pass1Part[n]))

BaseBucket(base) == SelectSeq(Unclaimed, LAMBDA p : BaseOf(p) = base)

\* The base-name buckets the claim says pass 2 emits.
ConflictBuckets ==
    {b \in {BaseBucket(BaseOf(p)) : p \in Range(Unclaimed)} :
        /\ Len(b) >= 2
        /\ Cardinality({ExtOf(p) : p \in Range(b)}) > 1
        /\ Cardinality(ContentDigests(b)) >= 2}

ReportTxt == Path(<<>>, <<report, txt>>)

ReportDocx == Path(<<>>, <<report, docx>>)

\* C8: pass 2 groups the unclaimed paths by base name and emits a bucket as
\* one group iff it has at least 2 members, extensions that are not all
\* identical, and contents with at least 2 distinct digests; report.txt and
\* report.docx with different content are returned as one group.  Stated
\* for the queries that follow a finder's first completed scan.
C8_Pass2Groups ==
    FirstScanQueried =>
        /\ Range(Pass2Part) = ConflictBuckets
        /\ Len(Pass2Part) = Cardinality(ConflictBuckets)
        /\ (/\ all_files = <<ReportTxt, ReportDocx>>
            /\ fs_content[ReportTxt] # fs_content[ReportDocx])
           => groups.same_names = <<all_files>>

\* The call made last on the finder has ended, and its root did not exist.
MissingRootCall == pc = "idle" /\ outcome.exc # "none" /\ ~entry.exists

FinderUnchanged ==
    /\ all_files = entry.all_files
    /\ file_hashes = entry.file_hashes
    /\ file_names = entry.file_names

\* C9 as claimed: scan_directory on a root that does not exist fails with
\* ValueError in every finder state, whatever the callback and the cancel
\* flag, and leaves all_files, file_hashes and file_names unchanged.
C9_MissingRootValueError ==
    MissingRootCall => outcome.exc = "ValueError" /\ FinderUnchanged

\* C9 as amended: it fails with ValueError when the cancel flag is not set
\* at the call's first progress update and with InterruptedError when it
\* is; either way the finder is left unchanged.
C9_MissingRootFails ==
    MissingRootCall =>
        /\ FinderUnchanged
        /\ Len(checks) = 1
        /\ outcome = IF checks[1].set
                     THEN [exc |-> "InterruptedError", line |-> 162]
                     ELSE [exc |-> "ValueError", line |-> 249]

\* A finder with a callback that holds a catalog and an index was asked to
\* scan a missing root.
C9_Witness ==
    /\ MissingRootCall
    /\ outcome.exc = "ValueError"
    /\ progress_callback
    /\ all_files # <<>>
    /\ file_hashes # <<>>

\* The call failed on a cancel check made before the catalog was stored.
CancelledEnumerating ==
    /\ pc = "idle"
    /\ outcome.exc = "InterruptedError"
    /\ \A n \in 1..Len(checks) : checks[n].at \in {"enter", "listed"}

\* C10 as claimed: up to the point where the catalog is stored the cancel
\* flag is checked exactly once, after the directory listing; if it is set
\* there the call fails with InterruptedError and all_files, file_hashes
\* and file_names keep their values.
C10_CheckedOnce ==
    /\ pc = "listed" => checks = <<>>
    /\ pc = "found" => checks = <<[at |-> "listed", set |-> FALSE]>>
    /\ CancelledEnumerating =>
          /\ checks = <<[at |-> "listed", set |-> TRUE]>>
          /\ outcome.line = 259
          /\ FinderUnchanged

\* C10 as amended: the flag is checked twice, by the first progress update
\* before the directory is listed and once after the listing; if it is set
\* at either check the call fails with InterruptedError and all_files,
\* file_hashes and file_names keep their values.
C10_CheckedTwice ==
    /\ pc = "listed" => checks = <<[at |-> "enter", set |-> FALSE]>>
    /\ pc = "found" => checks = <<[at |-> "enter", set |-> FALSE],
                                  [at |-> "listed", set |-> FALSE]>>
    /\ CancelledEnumerating =>
          /\ \/ checks = <<[at |-> "enter", set |-> TRUE]>> /\ outcome.line = 162
             \/ /\ checks = <<[at |-> "enter", set |-> FALSE],
                              [at |-> "listed", set |-> TRUE]>>
                /\ outcome.line = 259
          /\ FinderUnchanged

\* A finder that holds a catalog and an index was cancelled during the
\* listing of a directory with other files.
C10_Witness ==
    /\ CancelledEnumerating
    /\ outcome.line = 259
    /\ all_files # <<>>
    /\ file_hashes # <<>>
    /\ Range(all_files) # Opens

(* ------------------------------- C11 ---------------------------------- *)

\* The regular files a scan with these arguments has to catalogue: every
\* one below the root, or its direct children only.
RegularFilesUnder(recursive) ==
    {p \in fs_files : recursive \/ p.dir = <<>>}

\* C11: the catalog stored by scan_directory holds exactly the regular files
\* under the root (direct children only when recursive is false);
\* directories and symbolic links, also links to regular files, are never
\* catalogued.
C11_RegularFilesOnly ==
    pc = "found" =>
        /\ Range(all_files) = RegularFilesUnder(args.recursive)
        /\ Range(all_files) \cap (fs_links \cup {SubDir}) = {}

(* ------------------------- scoring two names -------------------------- *)

\* The letters the scored names are made of: three letters, a capital
\* and a character that is no word character.
NameLetters == {"a", "b", "c", "B", "-"}

\* The texts of at most n letters.
RECURSIVE Texts(_)
Texts(n) ==
    IF n = 0 THEN {<<>>}
    ELSE Texts(n - 1) \cup
         {Append(t, c) : t \in {u \in Texts(n - 1) : Len(u) = n - 1},
                         c \in NameLetters}

\* The file names that are scored: every non-empty text of the letters
\* with the extension txt, and the names of the tree.
ScoredNames ==
    {<<t, txt>> : t \in Texts(MaxNameLen) \ {<<>>}}
        \cup {<<report, txt>>, <<report, docx>>, <<notes, txt>>, <<link, txt>>}

\* A finder without a catalog, and two names and a method to score.
InitNames ==
    /\ fs_files = {}
    /\ fs_links = {}
    /\ fs_content = [p \in Opens |-> 1]
    /\ fs_unreadable = {}
    /\ NewFinderState
    /\ pc = "idle"
    /\ args = NoArgs
    /\ files = <<>>
    /\ hash_results = <<>>
    /\ order = <<>>
    /\ idx = 0
    /\ futures = <<>>
    /\ cur = NoPath
    /\ outcome = NoOutcome
    /\ groups = NoGroups
    /\ completed = 0
    /\ catalog = <<>>
    /\ entry = NoSnapshot
    /\ checks = <<>>
    /\ ticks = <<>>
    /\ hashed_ok = {}
    /\ mid_cancel = NoCancel
    /\ MatcherIdle
    /\ NotCancelling
    /\ score_args \in [name1 : ScoredNames, name2 : ScoredNames, method : Methods]
    /\ score = NoScore

\* finder.calculate_name_similarity(name1, name2, method) is called.
ScoreNames ==
    /\ score = NoScore
    /\ score' = calculate_name_similarity(score_args.name1, score_args.name2,
                                          score_args.method)
    /\ UNCHANGED <<fsVars, finderVars, scanVars, histVars, simVars,
                   simHistVars, score_args, cancelVars>>

NameSpec == InitNames /\ [][ScoreNames]_vars

(* --------------- cancel_operation beside a running call ---------------- *)

\* cancel_operation, lines 142-143: the flag is set and
\* self.current_executor is tested; the call is over when it is None.
CancelSet ==
    /\ cancel_pc = "idle"
    /\ cancel_outcome = "none"
    /\ PoolCall
    /\ cancel_event' = TRUE
    /\ IF current_executor = "None"
       THEN cancel_pc' = "idle" /\ cancel_outcome' = "returned"
       ELSE cancel_pc' = "shutdown" /\ UNCHANGED cancel_outcome
    /\ UNCHANGED <<fsVars, file_hashes, file_names, all_files, progress_callback,
                   current_executor, scanVars, histVars, simVars, simHistVars,
                   scoreVars>>

\* cancel_operation, line 144: self.current_executor is read again and
\* shutdown(wait=False) is called on what it holds now; on None the
\* attribute lookup raises.
CancelShutdown ==
    /\ cancel_pc = "shutdown"
    /\ cancel_pc' = "idle"
    /\ IF current_executor = "None"
       THEN cancel_outcome' = "AttributeError" /\ UNCHANGED shutdown
       ELSE cancel_outcome' = "returned" /\ shutdown' = TRUE
    /\ UNCHANGED <<fsVars, finderVars, scanVars, histVars, sim_pc, sim_args,
                   count, processed_pairs, similar_pairs, future_to_chunk,
                   cur_chunk, sim_outcome, sim_result, simHistVars, scoreVars>>

\* One pool search, and one cancel_operation called from another thread
\* while it runs.
RaceNext ==
    \/ \E threshold \in Thresholds, method \in Methods :
           find_similar_names_parallel(threshold, method)
    \/ ParGenerated
    \/ ParComparing
    \/ ParOpen
    \/ ParSubmit
    \/ \E k \in 1..Len(future_to_chunk) : ChunkStart(k)
    \/ \E k \in 1..Len(future_to_chunk) : ChunkFinish(k)
    \/ \E k \in 1..Len(future_to_chunk) : ParWait(k)
    \/ ParCollect
    \/ ParReturn
    \/ ParExit
    \/ CancelSet
    \/ CancelShutdown

RaceSpec == InitSim /\ [][RaceNext]_vars

(* ----------------------------- C12 - C18 ------------------------------ *)

\* A matcher call has returned its list.
SimReturned == sim_pc = "idle" /\ sim_outcome.exc = "returned"

\* The pairs the catalog generates, in generation order, whose basenames
\* differ.
CandidatePairs ==
    {pr \in Range(file_pairs) : basename(pr[1]) # basename(pr[2])}

\* The score of a generated pair under the call's method, the path
\* generated first being the first argument.
ScoreOf(pr) ==
    calculate_name_similarity(basename(pr[1]), basename(pr[2]), sim_args.method)

Listed(pr) == \E n \in 1..Len(sim_result) :
                 {sim_result[n][1], sim_result[n][2]} = {pr[1], pr[2]}

\* C12: for every pair of catalogued paths whose basenames differ, the list
\* find_similar_names returns holds the pair iff the pair's score under the
\* chosen method is >= the threshold (a score equal to the threshold is
\* retained), in the sequential and in the pool version.
C12_ThresholdInclusive ==
    SimReturned =>
        \A pr \in CandidatePairs :
            Listed(pr) <=> Geq(ScoreOf(pr), sim_args.threshold)

\* The pool version returned a list that holds a pair scoring exactly the
\* threshold and leaves another pair out.
C12_Witness ==
    /\ SimReturned
    /\ sim_args.via = "pool"
    /\ \E pr \in CandidatePairs : Listed(pr) /\ ScoreOf(pr) = sim_args.threshold
    /\ \E pr \in CandidatePairs : ~Listed(pr)

PairSet(list) == {{list[n][1], list[n][2]} : n \in 1..Len(list)}

\* A search that returned follows one with the same method that returned.
Repeated == SimReturned /\ last_call.method = sim_args.method

\* C13: for a fixed catalog and method and thresholds t1 <= t2, the pairs
\* find_similar_names returns at t2 are among those it returns at t1, and
\* the list at t2 is not longer.
C13_ThresholdMonotone ==
    Repeated =>
        /\ Geq(sim_args.threshold, last_call.threshold) =>
                /\ PairSet(sim_result) \subseteq PairSet(last_call.pairs)
                /\ Len(sim_result) <= Len(last_call.pairs)
        /\ Geq(last_call.threshold, sim_args.threshold) =>
                /\ PairSet(last_call.pairs) \subseteq PairSet(sim_result)
                /\ Len(last_call.pairs) <= Len(sim_result)

\* The threshold was raised and the list became shorter, without becoming
\* empty.
C13_Witness ==
    /\ Repeated
    /\ ~Geq(last_call.threshold, sim_args.threshold)
    /\ Len(sim_result) < Len(last_call.pairs)
    /\ sim_result # <<>>

\* How often the running (or last) call scored the unordered pair.
TimesScored(pr) ==
    Cardinality({n \in 1..Len(scored) : {scored[n][1], scored[n][2]} = {pr[1], pr[2]}})

\* Each entry of the list is a pair of two distinct paths whose basenames
\* differ, and no unordered pair occurs twice.
ProperEntries ==
    /\ \A n \in 1..Len(sim_result) :
           /\ sim_result[n][1] # sim_result[n][2]
           /\ basename(sim_result[n][1]) # basename(sim_result[n][2])
    /\ \A m, n \in 1..Len(sim_result) :
           {sim_result[m][1], sim_result[m][2]} = {sim_result[n][1], sim_result[n][2]}
               => m = n

\* C14 as claimed: find_similar_names scores each of the C(n,2) unordered
\* pairs of catalogued paths exactly once, and each entry of a returned
\* list is a pair of distinct paths with different basenames, no unordered
\* pair occurring twice.
C14_EveryPairScoredOnce ==
    SimReturned =>
        /\ \A pr \in Range(file_pairs) : TimesScored(pr) = 1
        /\ Len(scored) = total_pairs
        /\ ProperEntries

\* C14 as amended: each of the C(n,2) unordered pairs is visited once; it
\* is scored exactly once when its basenames differ and never when they
\* are equal; each entry of a returned list is a pair of distinct paths
\* with different basenames, no unordered pair occurring twice.
C14_DifferentNamesScoredOnce ==
    SimReturned =>
        /\ \A pr \in Range(file_pairs) :
               TimesScored(pr) = IF basename(pr[1]) # basename(pr[2]) THEN 1 ELSE 0
        /\ Len(scored) = Cardinality(CandidatePairs)
        /\ ProperEntries

\* The pool version returned pairs of a catalog that holds two files of
\* the same name.
C14_Witness ==
    /\ SimReturned
    /\ sim_args.via = "pool"
    /\ sim_result # <<>>
    /\ CandidatePairs # Range(file_pairs)

\* The place of a pair in the order of generation.
Generated(f1, f2) ==
    CHOOSE k \in 1..total_pairs : file_pairs[k] = <<f1, f2>>

\* C15: the list find_similar_names returns is in non-increasing score
\* order, and entries of equal score are in the order their pairs were
\* generated from the catalog, whatever the order the workers complete
\* the chunks in.
C15_RankedStable ==
    SimReturned =>
        \A m, n \in 1..Len(sim_result) :
            m < n =>
                /\ Geq(sim_result[m][3], sim_result[n][3])
                /\ sim_result[m][3] = sim_result[n][3] =>
                       Generated(sim_result[m][1], sim_result[m][2])
                           < Generated(sim_result[n][1], sim_result[n][2])

\* C16: for any two file names A and B and each of the five methods,
\* calculate_name_similarity(A, B, method) equals
\* calculate_name_similarity(B, A, method).
C16_Symmetric ==
    score # NoScore =>
        score = calculate_name_similarity(score_args.name2, score_args.name1,
                                          score_args.method)

\* C17: when cancel_operation is called while find_similar_names_parallel
\* runs with a chunk not collected yet, the call ends with
\* InterruptedError and returns no list.  Calls in which a worker's own
\* exception came out are left aside here.
C17_CancelIsInterrupted ==
    (/\ sim_pc = "idle"
     /\ sim_cancel.at # "none"
     /\ sim_outcome.exc # "WorkerError") =>
        /\ sim_outcome.exc = "InterruptedError"
        /\ sim_result = <<>>

\* C18: when the worker of a chunk raises, find_similar_names_parallel
\* raises that exception when it collects the chunk's result; it returns no
\* pairs, the pairs collected before are dropped, and
\* self.current_executor is None again.
C18_WorkerFailureAborts ==
    /\ ChunksIn({"raised"}) # {} =>
           /\ sim_pc = "exit"
           /\ sim_outcome = [exc |-> "WorkerError", line |-> 456]
           /\ sim_result = <<>>
           /\ current_executor = "None"
    /\ (sim_pc = "idle" /\ sim_outcome.exc = "WorkerError") =>
           /\ sim_result = <<>>
           /\ similar_pairs = <<>>
           /\ current_executor = "None"

\* A worker's exception came out after another chunk's pairs had been
\* collected.
C18_Witness ==
    /\ ChunksIn({"raised"}) # {}
    /\ similar_pairs # <<>>
    /\ sim_pc = "exit"

(* -------------------------------- C19 --------------------------------- *)

\* The callbacks calculate_hashes_parallel made: those of scan_directory
\* itself carry no percentage.
HashTicks == SelectSeq(ticks, LAMBDA t : t.total > 0)

\* progress = completed / total_files * 100
Percent(t) == Frac(t.done * 100, t.total)

\* calculate_hashes_parallel has returned its mapping to scan_directory.
HashesReturned == pc = "build"

\* C19: when calculate_hashes_parallel has returned for N files with a
\* progress callback set, the callback was invoked exactly N times by it,
\* once per completed file whether hashed or skipped with an error; the
\* k-th invocation carries k/N*100, so the percentages increase strictly
\* and the last is 100.  While the call runs, the invocations made so far
\* are the first of these.
C19_ProgressPerFile ==
    /\ (HashesReturned /\ progress_callback) =>
           /\ Len(HashTicks) = Len(all_files)
           /\ Percent(HashTicks[Len(HashTicks)]) = Whole(100)
    /\ \A k \in 1..Len(HashTicks) :
           /\ HashTicks[k].total = Len(all_files)
           /\ Percent(HashTicks[k]) = Frac(k * 100, Len(all_files))
           /\ k > 1 => ~Geq(Percent(HashTicks[k - 1]), Percent(HashTicks[k]))

\* The pool strategy returned for at least two files, one of them skipped
\* with an error, with a callback set.
C19_Witness ==
    /\ HashesReturned
    /\ progress_callback
    /\ Len(all_files) >= SequentialLimit
    /\ Len(all_files) >= 2
    /\ Range(all_files) \cap fs_unreadable # {}
    /\ Len(HashTicks) = Len(all_files)

(* -------------------------------- C20 --------------------------------- *)

\* Scans that nobody cancels.
HashNext ==
    \/ \E callback \in BOOLEAN : set_progress_callback(callback)
    \/ \E exists, recursive \in BOOLEAN : scan_directory(exists, recursive)
    \/ ScanCatalog
    \/ ScanFound
    \/ SeqCheck
    \/ SeqHash
    \/ BuildMappings
    \/ \E p \in Range(Tree) : WorkerStart(p)
    \/ \E p \in Range(Tree) : WorkerFinish(p)
    \/ PoolWait
    \/ PoolCollect

\* The steps of the thread that runs the call.
CallerStep ==
    \/ ScanCatalog
    \/ ScanFound
    \/ SeqCheck
    \/ SeqHash
    \/ BuildMappings
    \/ PoolWait
    \/ PoolCollect

\* The calling thread keeps running, and the pool's processes are
\* scheduled fairly: a unit that can be taken off the queue is taken, a
\* unit that is being hashed is finished (the worker catches every error
\* of the read).
HashFair ==
    /\ WF_vars(CallerStep)
    /\ \A p \in Range(Tree) : WF_vars(WorkerStart(p)) /\ WF_vars(WorkerFinish(p))

HashSpec == Init /\ [][HashNext]_vars /\ HashFair

\* calculate_hashes_parallel is in its pool strategy, or has returned
\* from it.
InPool ==
    \/ pc \in {"pool_wait", "pool_result"}
    \/ pc = "build" /\ futures # <<>>

Collected == {p \in DOMAIN futures : futures[p].state = "collected"}

\* The collected units that gave an error string and were skipped.
Skipped == {p \in Collected : IsError(futures[p].result)}

\* One unit was submitted per catalogued path; the units counted as
\* collected are the collected ones, each once; each is an entry of the
\* mapping or a skipped error; when the call has returned all are
\* collected.
UnitsAccounted ==
    InPool =>
        /\ DOMAIN futures = Range(all_files)
        /\ idx = Cardinality(Collected)
        /\ DOMAIN hash_results = Collected \ Skipped
        /\ Cardinality(DOMAIN hash_results) + Cardinality(Skipped) = idx
        /\ pc = "build" => Collected = DOMAIN futures /\ idx = Len(all_files)

\* C20: under fair scheduling of the pool's workers and without
\* cancellation, every unit calculate_hashes_parallel submitted is
\* collected exactly once, as a digest or as a skipped error, and the call
\* returns eventually; the mapping's entries and the skipped files are
\* together the N submitted paths.
C20_EveryUnitCollected ==
    /\ []UnitsAccounted
    /\ (pc = "pool_wait") ~> (pc = "build" /\ futures # <<>>)

\* The pool strategy returned with an entry for one file and another file
\* skipped.
C20_Witness ==
    /\ pc = "build"
    /\ futures # <<>>
    /\ Skipped # {}
    /\ DOMAIN hash_results # {}
    /\ ~cancel_event

(* ----------------------------- C21 - C22 ------------------------------ *)

\* The paths pass 2 groups by base name.
Pass2Grouped ==
    UNION {Range(BaseNameGroups(<<>>, all_files)[n].paths) :
              n \in 1..Len(BaseNameGroups(<<>>, all_files))}

InPass1Group(p) == \E n \in 1..Len(Pass1Part) : p \in Range(Pass1Part[n])

\* The exact-filename bucket that counts the path.
NameBucket(p) == file_names[KeyIndex(file_names, basename(p))].paths

\* C21: a path is excluded from the base-name grouping of pass 2 iff it is
\* a member of a group that pass 1 emitted; the members of an
\* exact-filename bucket of two or more paths whose contents are all
\* identical are not claimed and are grouped by pass 2.  Stated for the
\* queries that follow a finder's first completed scan.
C21_ClaimedIffEmitted ==
    FirstScanQueried =>
        \A p \in Range(all_files) :
            /\ p \notin Pass2Grouped <=> InPass1Group(p)
            /\ (/\ Len(NameBucket(p)) >= 2
                /\ Cardinality(ContentDigests(NameBucket(p))) = 1)
               => p \in Pass2Grouped

\* C22 as claimed: pass 2 excludes every path that is counted in an
\* exact-filename bucket of two or more paths, also when pass 1 found the
\* bucket's content identical and did not emit it.
C22_AnyBucketExcluded ==
    FirstScanQueried =>
        \A p \in Range(all_files) :
            Len(NameBucket(p)) >= 2 => p \notin Pass2Grouped

\* C22 as amended: pass 2 excludes exactly the paths of the exact-filename
\* buckets that pass 1 emitted; the paths of a bucket of two or more paths
\* that pass 1 did not emit all take part in the base-name grouping.
C22_EmittedBucketExcluded ==
    FirstScanQueried =>
        \A p \in Range(all_files) :
            IF \E n \in 1..Len(Pass1Part) : Pass1Part[n] = NameBucket(p)
            THEN Range(NameBucket(p)) \cap Pass2Grouped = {}
            ELSE Range(NameBucket(p)) \subseteq Pass2Grouped

\* Two files of one name and the same content were not emitted by pass 1
\* and are members of a group of pass 2.
C22_Witness ==
    /\ FirstScanQueried
    /\ \E p \in Range(all_files) :
           /\ Len(NameBucket(p)) >= 2
           /\ ~InPass1Group(p)
           /\ \E n \in 1..Len(Pass2Part) : p \in Range(Pass2Part[n])

(* -------------------------------- C23 --------------------------------- *)

\* C23: when the cancellation trips during pool-based hashing, the units
\* that were not started are cancelled, and calculate_hashes_parallel fails
\* with InterruptedError without waiting for the units that are running in
\* workers: from the moment it tripped the call can end, whatever the
\* workers are doing.
C23_FailsWithoutWaiting ==
    pc = "pool_exit" =>
        /\ outcome.exc = "InterruptedError"
        /\ \A p \in DOMAIN futures : futures[p].state # "pending"
        /\ ENABLED PoolExit

(* -------------------------------- C24 --------------------------------- *)

\* The progress updates that carry a percentage.
PercentTicks == SelectSeq(sim_ticks, LAMBDA t : t.total > 0)

\* The comparisons of the sequential version that are followed by a
\* progress update: those with a number the period divides, when the pair
\* is scored.
UpdatedComparisons ==
    {k \in 1..total_pairs :
        /\ k % ProgressEvery = 0
        /\ basename(file_pairs[k][1]) # basename(file_pairs[k][2])}

\* The pool version made one update per chunk, the k-th with k of the
\* number of chunks.
OnePerChunk ==
    /\ Len(PercentTicks) = NumChunks
    /\ \A k \in 1..Len(PercentTicks) :
           PercentTicks[k] = [done |-> k, total |-> NumChunks]

\* C24 as claimed: a call of find_similar_names that returned has made one
\* progress update carrying a percentage, and with it one check of the
\* cancel flag, per completed chunk in the pool version and per pair
\* comparison in the sequential version.
C24_PerChunkPerComparison ==
    SimReturned =>
        /\ sim_args.via = "pool" => OnePerChunk
        /\ sim_args.via = "sequential" =>
               /\ Len(PercentTicks) = total_pairs
               /\ \A k \in 1..Len(PercentTicks) :
                      PercentTicks[k] = [done |-> k, total |-> total_pairs]

\* C24 as amended: one update per completed chunk in the pool version; in
\* the sequential version one update after each comparison whose number
\* is a multiple of the period (100 in the program) and whose pair is
\* scored, and none after the other comparisons.
C24_PerChunkPerPeriod ==
    SimReturned =>
        /\ sim_args.via = "pool" => OnePerChunk
        /\ sim_args.via = "sequential" =>
               /\ {PercentTicks[k].done : k \in 1..Len(PercentTicks)}
                      = UpdatedComparisons
               /\ Len(PercentTicks) = Cardinality(UpdatedComparisons)
               /\ \A k \in 1..Len(PercentTicks) :
                      PercentTicks[k].total = total_pairs

\* The sequential version returned after three comparisons, with an update
\* after the second only.
C24_Witness ==
    /\ SimReturned
    /\ sim_args.via = "sequential"
    /\ total_pairs = 3
    /\ PercentTicks = <<[done |-> 2, total |-> 3]>>

(* -------------------------------- C25 --------------------------------- *)

\* The keys in the order they are first seen.
RECURSIVE FirstSeen(_)
FirstSeen(keys) ==
    IF keys = <<>> THEN <<>>
    ELSE LET rest == FirstSeen(SubSeq(keys, 1, Len(keys) - 1))
             last == keys[Len(keys)]
         IN  IF last \in Range(rest) THEN rest ELSE Append(rest, last)

\* The catalogued files that can be read, in catalog order.
ReadableFiles == SelectSeq(all_files, LAMBDA p : p \notin fs_unreadable)

\* The fingerprint index of the catalog: a bucket per digest in first-seen
\* order, its paths in catalog order.
CatalogHashes ==
    LET keys == FirstSeen([k \in 1..Len(ReadableFiles) |->
                              Digest(fs_content[ReadableFiles[k]])])
    IN  [n \in 1..Len(keys) |->
            [key |-> keys[n],
             paths |-> SelectSeq(ReadableFiles,
                                 LAMBDA p : Digest(fs_content[p]) = keys[n])]]

\* The filename index of the catalog, of every path.
CatalogNames ==
    LET keys == FirstSeen([k \in 1..Len(all_files) |-> basename(all_files[k])])
    IN  [n \in 1..Len(keys) |->
            [key |-> keys[n],
             paths |-> SelectSeq(all_files, LAMBDA p : basename(p) = keys[n])]]

\* C25: whatever the order in which the workers complete the hashing
\* units, the first completed scan of a finder builds the same index: each
\* fingerprint bucket and each filename bucket lists its paths in catalog
\* order, the buckets are in first-seen order, and every catalogued path is
\* in its filename bucket whether or not it was hashed.
C25_SameIndex ==
    [][(pc = "build" /\ completed = 0 /\ outcome'.exc = "returned") =>
           /\ file_hashes' = CatalogHashes
           /\ file_names' = CatalogNames]_vars

\* The mappings are about to be built after the pool collected the
\* results out of catalog order, one of them an error.
C25_Witness ==
    /\ pc = "build"
    /\ completed = 0
    /\ ~cancel_event
    /\ futures # <<>>
    /\ Len(order) = Len(all_files)
    /\ order # all_files
    /\ Range(all_files) \cap fs_unreadable # {}
    /\ \E p, q \in Range(ReadableFiles) : p # q /\ fs_content[p] = fs_content[q]

(* -------------------------------- C26 --------------------------------- *)

\* C26: however a thread's cancel_operation interleaves with the thread
\* that finishes find_similar_names_parallel, whose finally clause sets
\* current_executor to None, cancel_operation returns without raising: it
\* never calls shutdown on a reference that became None after its test.
C26_CancelNeverRaises == cancel_outcome # "AttributeError"

\* C27: after any sequence of scan_directory calls on one finder, each
\* completed, failed or cancelled, the paths held in file_names are the
\* paths of all_files.
C27_IndexMatchesCatalog ==
    (pc = "idle" /\ completed >= 1) =>
        IndexedPaths(file_names) = Range(all_files)

\* Both versions of the matcher returned, one after the other, for the same
\* catalog, method and threshold.
BothVersions ==
    /\ SimReturned
    /\ last_call.via # "none"
    /\ last_call.via # sim_args.via
    /\ last_call.method = sim_args.method
    /\ last_call.threshold = sim_args.threshold

\* C28: for the same catalog, method and threshold, find_similar_names on
\* its sequential path and find_similar_names_parallel, whatever the order
\* in which the chunks complete, return the same set of
\* (path1, path2, score) triples.
C28_SameTriples ==
    BothVersions => Range(sim_result) = Range(last_call.pairs)

\* The sequential path and then the pool, with two chunks, returned a
\* triple and left a pair out.
C28_Witness ==
    /\ BothVersions
    /\ sim_args.via = "pool"
    /\ NumChunks >= 2
    /\ sim_result # <<>>
    /\ Len(sim_result) < total_pairs

(* --------------------- grouping by name, larger trees ------------------ *)

\* A new finder over a tree of up to MaxGroupFiles regular files, two names of
\* which can each be held by two files and two base names by two
\* extensions.
InitGroups ==
    /\ fs_files \in {S \in SUBSET GroupPaths : Cardinality(S) <= MaxGroupFiles}
    /\ fs_links = {}
    /\ fs_content \in {f \in [Opens -> 1..MaxContents] : Canonical(f)}
    /\ fs_unreadable \in {S \in SUBSET Opens : Cardinality(S) <= MaxUnreadable}
    /\ NewFinderState
    /\ pc = "idle"
    /\ args = NoArgs
    /\ files = <<>>
    /\ hash_results = <<>>
    /\ order = <<>>
    /\ idx = 0
    /\ futures = <<>>
    /\ cur = NoPath
    /\ outcome = NoOutcome
    /\ groups = NoGroups
    /\ completed = 0
    /\ catalog = <<>>
    /\ entry = NoSnapshot
    /\ checks = <<>>
    /\ ticks = <<>>
    /\ hashed_ok = {}
    /\ mid_cancel = NoCancel
    /\ MatcherIdle
    /\ NotCancelling
    /\ NotScoring

\* The finder's first scan, of a root that exists.
first_scan(recursive) == completed = 0 /\ scan_directory(TRUE, recursive)

\* One scan that is not cancelled, and the queries after it.
GroupNext ==
    \/ \E recursive \in BOOLEAN : first_scan(recursive)
    \/ ScanCatalog
    \/ ScanFound
    \/ SeqCheck
    \/ SeqHash
    \/ BuildMappings
    \/ \E p \in Range(Tree) : WorkerStart(p)
    \/ \E p \in Range(Tree) : WorkerFinish(p)
    \/ PoolWait
    \/ PoolCollect
    \/ Classify

GroupSpec == InitGroups /\ [][GroupNext]_vars

\* Two groups have no path in common.
Disjoint(g, h) == Range(g) \cap Range(h) = {}

\* The queries have run on the finder as it is.
Queried == pc = "idle" /\ groups.queried

\* C29: no path is in more than one group of one call of
\* find_same_names_different_content: the groups of pass 1 are pairwise
\* disjoint, the groups of pass 2 are pairwise disjoint, and no group of
\* pass 2 holds a path of a group of pass 1.
C29_GroupsDisjoint ==
    Queried =>
        /\ \A m, n \in 1..Len(Pass1Part) :
               m # n => Disjoint(Pass1Part[m], Pass1Part[n])
        /\ \A m, n \in 1..Len(Pass2Part) :
               m # n => Disjoint(Pass2Part[m], Pass2Part[n])
        /\ \A m \in 1..Len(Pass1Part), n \in 1..Len(Pass2Part) :
               Disjoint(Pass1Part[m], Pass2Part[n])

\* Pass 1 emitted a group, a path it claimed shares its base name with a
\* path of another extension, and pass 2 emitted a group as well.
C29_Witness ==
    /\ Queried
    /\ Pass1Part # <<>>
    /\ Pass2Part # <<>>
    /\ \E p \in processed_groups, q \in Range(all_files) \ processed_groups :
           BaseOf(p) = BaseOf(q) /\ ExtOf(p) # ExtOf(q)

(* ------------------ calls made while the flag is set ------------------- *)

\* scan_directory called again by the thread that also runs the matcher,
\* before the search (gui_app.py perform_scan: scan, then search).
scan_again(exists, recursive) ==
    sim_pc = "idle" /\ sim_calls = 0 /\ scan_directory(exists, recursive)

\* The searches are made with the default method.
search(threshold) == find_similar_names(threshold, "ratio")

search_parallel(threshold) == find_similar_names_parallel(threshold, "ratio")

\* A finder that holds an index: scans and name searches, one at a time,
\* with cancel_operation and reset_cancellation called at any moment
\* between or during them.
FlagNext ==
    \/ cancel_operation
    \/ reset_cancellation
    \/ \E exists, recursive \in BOOLEAN : scan_again(exists, recursive)
    \/ ScanCatalog
    \/ ScanFound
    \/ SeqCheck
    \/ SeqHash
    \/ BuildMappings
    \/ \E p \in Range(Tree) : WorkerStart(p)
    \/ \E p \in Range(Tree) : WorkerFinish(p)
    \/ PoolWait
    \/ PoolCollect
    \/ PoolExit
    \/ \E threshold \in Thresholds : search(threshold)
    \/ \E threshold \in Thresholds : search_parallel(threshold)
    \/ SimCompare
    \/ SimSeqReturn
    \/ ParGenerated
    \/ ParComparing
    \/ ParOpen
    \/ ParSubmit
    \/ \E k \in 1..Len(future_to_chunk) : ChunkStart(k)
    \/ \E k \in 1..Len(future_to_chunk) : ChunkFinish(k)
    \/ \E k \in 1..Len(future_to_chunk) : ParWait(k)
    \/ ParCollect
    \/ ParReturn
    \/ ParExit

\* The finder holds the index of a completed scan of a small tree.
InitFlag == InitSim /\ Cardinality(Opens) <= MaxFlagFiles

FlagSpec == InitFlag /\ [][FlagNext]_vars

\* The step is a call of scan_directory.
ScanCalled == \E exists, recursive \in BOOLEAN : scan_directory(exists, recursive)

\* The step is a call of find_similar_names, or of the version it runs
\* for a catalog of more than 100 files.
SearchCalled ==
    \E threshold \in Thresholds : search(threshold) \/ search_parallel(threshold)

\* The call the step made has ended in _update_progress (line 162), and
\* the catalog and the index are as they were.
FailedAtFirstCheck(at, ended) ==
    /\ at = "idle"
    /\ ended = [exc |-> "InterruptedError", line |-> 162]
    /\ UNCHANGED <<all_files, file_hashes, file_names>>

\* C30: once cancel_operation has set the flag it stays set until
\* reset_cancellation is called, and every scan_directory call, and every
\* find_similar_names call over a catalog of at least 2 files, made in
\* between fails with InterruptedError at its first check point, without
\* changing all_files, file_hashes or file_names.
C30_FlagHoldsCallsFail ==
    [][/\ (cancel_event /\ ~cancel_event') => reset_cancellation
       /\ (cancel_event /\ ScanCalled) =>
              /\ FailedAtFirstCheck(pc', outcome')
              /\ Len(checks') = 1
       /\ (cancel_event /\ SearchCalled /\ Len(all_files) >= 2) =>
              /\ FailedAtFirstCheck(sim_pc', sim_outcome')
              /\ Len(sim_ticks') = 1
              /\ scored' = <<>>]_vars

\* With the flag set, a scan of a finder that holds an index and a name
\* search over its catalog of two or more files both failed at their first
\* check point.
C30_Witness ==
    /\ cancel_event
    /\ pc = "idle"
    /\ sim_pc = "idle"
    /\ outcome = [exc |-> "InterruptedError", line |-> 162]
    /\ Len(checks) = 1
    /\ checks[1].set
    /\ sim_outcome = [exc |-> "InterruptedError", line |-> 162]
    /\ Len(sim_ticks) = 1
    /\ scored = <<>>
    /\ Len(all_files) >= 2
    /\ file_names # <<>>


====
